---- MODULE Spec2Model ----
(***************************************************************************)
(* hangar: the write-enabled checkout (src/src/hangar/checkout.py) over    *)
(* the repository records it drives: the writer lock, the branch heads,    *)
(* the staging area, the hash records and the commit log; the read-only    *)
(* checkout pinned to a commit; the accessors both hand out; a nested      *)
(* column; and the `with` blocks of a checkout and its accessors.          *)
(*                                                                         *)
(* A method of WriterCheckout is a lower-case operator from (self, w), the *)
(* object's attributes and the repository's records, to a result           *)
(* [self, w, err, ret]: the attributes and records the call leaves behind, *)
(* the exception it raised ("ok" when it returned) and the value returned. *)
(* The capitalised actions are the calls a user of the repository makes.   *)
(*                                                                         *)
(* The integrity verifier (src/src/hangar/diagnostics/integrity.py) is run *)
(* on repositories given record by record, sound or damaged, and each      *)
(* audit is an operator from the records and the order it meets them in to *)
(* a report; the backend selection (src/src/hangar/backends/selection.py)  *)
(* is an operator of the prototype it is given.                            *)
(***************************************************************************)
EXTENDS Integers, Sequences, FiniteSets, TLC

VARIABLES
    writerLock,     \* branchenv: the stored writer lock (sentinel or a token)
    branchHeads,    \* branchenv: branch name -> head commit digest
    stagingBranch,  \* branchenv: name of the staging base branch
    commitLog,      \* refenv: commit digest c is commitLog[c]: parents, refs
    stageenv,       \* stageenv: sample key -> data digest (staged refs)
    hashenv,        \* hashenv: data digests that have a spec record
    stagehashenv,   \* stagehashenv: digests first written in this stage
    minted,         \* number of WriterCheckout constructions (tokens minted)
    writers,        \* the WriterCheckout objects whose construction returned
    readers,        \* the ReaderCheckout objects constructed
    proxies,        \* the accessor proxy the user holds of a checkout, if any
    column,         \* a nested column of the open writer: its refs and payloads
    added,          \* sample key -> subsample keys assigned to the column so far
    stack,          \* the `with` blocks entered and not yet left, innermost last
    conman,         \* accessor -> number of entered `with` blocks that hold it
    last,           \* the last call made and how it ended
    audited,        \* the repository records handed to the verifier
    report,         \* what the last audit did and how it ended
    prototype,      \* the array and flag handed to backend selection
    selected        \* the backend code selected for the prototype

vars == <<writerLock, branchHeads, stagingBranch, commitLog, stageenv,
          hashenv, stagehashenv, minted, writers, readers, proxies,
          column, added, stack, conman, last,
          audited, report, prototype, selected>>

repo == <<branchHeads, stagingBranch, commitLog, stageenv, hashenv, stagehashenv>>

\* The checkouts of the repository.
checkouts == <<writerLock, minted, writers, readers, proxies>>

\* The column and accessor objects followed on their own.
facade == <<column, added, stack, conman>>

\* The verifier and the backend selection, run apart from any checkout.
offline == <<audited, report, prototype, selected>>

----------------------------------------------------------------------------
(* Bounds of the model. *)

MaxWriters == 2

MaxCommits == 2

MaxReaders == 1

MaxDepth == 4

MaxNdim == 4

MaxParseNdim == 2

(* Inputs. *)

\* The accessors of a checkout: two columns and the metadata.
Accessors == {"foo", "bar", "metadata"}

BranchNames == {"master", "dev"}

SampleKeys == {"x"}

Payloads == {"zeros", "ones"}

Messages == {"c1"}

\* The largest integer sample key.
MaxIntKey == 999999

\* Sample and subsample keys as the user gives them: an integer or a string,
\* never equal to each other; the last integer is past the valid range.
KeyInputs == {<<"int", MaxIntKey>>, <<"str", "0">>, <<"int", MaxIntKey + 1>>}

SubkeyInputs == {<<"int", 0>>, <<"str", "0">>}

\* Arrays of a variable-shape float32 column.
Arrays ==
    {[dtype |-> "float32", shape |-> "5x5x5", data |-> "zeros"],
     [dtype |-> "float32", shape |-> "1x1x1", data |-> "zeros"],
     [dtype |-> "float32", shape |-> "5x5x5", data |-> "ones"]}

----------------------------------------------------------------------------
(* Records the checkout reads and writes through hangar.records. *)

\* parsing.repo_writer_lock_sentinal_db_val: the lock's value when it is free.
LockSentinel == 0

\* uuid4(): a token no other checkout object carries; object n mints token n.
uuid4(n) == n

\* hashmachine.array_hash_digest: a type code and the hash of the content.
array_hash_digest(payload) == <<"0", payload>>

NoRefs == [k \in {} |-> <<"0", "zeros">>]

\* heads.acquire_writer_lock: succeed when the stored lock is this token or
\* free (installing the token); refuse when another token is stored.
heads_acquire_writer_lock(lock, token) ==
    IF lock = token THEN [ok |-> TRUE, lock |-> lock]
    ELSE IF lock = LockSentinel THEN [ok |-> TRUE, lock |-> token]
    ELSE [ok |-> FALSE, lock |-> lock]

\* heads.release_writer_lock: the holder's token frees the lock.
heads_release_writer_lock(lock, token) ==
    IF lock = token THEN LockSentinel ELSE lock

\* heads.get_staging_branch_head
get_staging_branch_head(w) == w.sbranch

\* heads.get_branch_head_commit (the branch exists)
get_branch_head_commit(w, branch) == w.heads[branch]

\* diff.staging_area_status: CLEAN iff the staged refs are the refs of the
\* staging base branch's head commit.
staging_area_status(w) ==
    IF w.stage = w.log[get_branch_head_commit(w, get_staging_branch_head(w))].refs
    THEN "CLEAN" ELSE "DIRTY"

\* commiting.replace_staging_area_with_commit
replace_staging_area_with_commit(w, commit_hash) ==
    [w EXCEPT !.stage = w.log[commit_hash].refs]

\* heads.set_staging_branch_head
set_staging_branch_head(w, branch) == [w EXCEPT !.sbranch = branch]

\* commiting.commit_records: a new commit whose parent is the staging base
\* branch's head and whose refs are the staged refs; the branch head advances.
commit_records(w, message) ==
    LET base   == get_staging_branch_head(w)
        parent == get_branch_head_commit(w, base)
        digest == Len(w.log) + 1
    IN  [w |-> [w EXCEPT !.log = Append(w.log, [parents |-> {parent}, message |-> message,
                                                 refs |-> w.stage]),
                         !.heads = [w.heads EXCEPT ![base] = digest]],
         digest |-> digest]

\* hashs.clear_stage_hash_records
clear_stage_hash_records(w) == [w EXCEPT !.stagehash = {}]

\* hashs.remove_stage_hash_records_from_hashenv
remove_stage_hash_records_from_hashenv(w) == [w EXCEPT !.hashenv = w.hashenv \ w.stagehash]

\* Column write through the datasets accessor: hash, store if new, stage the ref.
column_set(w, key, payload) ==
    LET d == array_hash_digest(payload) IN
    [w EXCEPT !.hashenv = w.hashenv \cup {d},
              !.stagehash = IF d \in w.hashenv THEN w.stagehash ELSE w.stagehash \cup {d},
              !.stage = [k \in DOMAIN w.stage \cup {key} |->
                            IF k = key THEN d ELSE w.stage[k]]]

\* Column delete through the datasets accessor: drop the staged ref.
column_del(w, key) ==
    [w EXCEPT !.stage = [k \in DOMAIN w.stage \ {key} |-> w.stage[k]]]

----------------------------------------------------------------------------
(* WriterCheckout *)

\* The records of the repository, as the methods see them.
World ==
    [lock |-> writerLock, heads |-> branchHeads, sbranch |-> stagingBranch,
     log |-> commitLog, stage |-> stageenv, hashenv |-> hashenv,
     stagehash |-> stagehashenv]

\* WriterCheckout.__init__ before __setup: the attributes of a new object.
\* facades: "None" (assigned None), "built", or "deleted" (attribute removed).
\* closed is not an attribute: it records that close() returned on the object.
init(n, branch_name) ==
    [id |-> n, has_writer_lock |-> TRUE, facades |-> "None",
     branch_name |-> branch_name, closed |-> FALSE]

\* del self._datasets; del self._metadata (AttributeError swallowed)
del_facades(self) == [self EXCEPT !.facades = "deleted"]

Raise(self, w, err) == [self |-> self, w |-> w, err |-> err, ret |-> 0]

Return(self, w, ret) == [self |-> self, w |-> w, err |-> "ok", ret |-> ret]

\* Mutant: a refusal by heads.acquire_writer_lock is logged and not re-raised.
acquire_writer_lock_swallow(self, w) ==
    IF ~self.has_writer_lock
    THEN Raise(del_facades(self), w, "PermissionError")
    ELSE LET r == heads_acquire_writer_lock(w.lock, uuid4(self.id)) IN
         Return(self, [w EXCEPT !.lock = r.lock], 0)

\* Mutant: a refusal is re-raised without dropping the facades.
acquire_writer_lock_keep_facades(self, w) ==
    IF ~self.has_writer_lock
    THEN Raise(del_facades(self), w, "PermissionError")
    ELSE LET r == heads_acquire_writer_lock(w.lock, uuid4(self.id)) IN
         IF r.ok
         THEN Return(self, [w EXCEPT !.lock = r.lock], 0)
         ELSE Raise(self, w, "PermissionError")

\* WriterCheckout.__acquire_writer_lock
acquire_writer_lock(self, w) ==
    IF ~self.has_writer_lock
    THEN Raise(del_facades(self), w, "PermissionError")
    ELSE LET r == heads_acquire_writer_lock(w.lock, uuid4(self.id)) IN
         IF r.ok
         THEN Return(self, [w EXCEPT !.lock = r.lock], 0)
         ELSE Raise(del_facades(self), w, "PermissionError")

\* Mutant: close drops the facades and the token without releasing the lock.
close_no_release(self, w) ==
    LET a == acquire_writer_lock(self, w) IN
    IF a.err # "ok" THEN a
    ELSE IF a.self.facades # "built"
         THEN Raise(a.self, a.w, "AttributeError")
         ELSE Return([a.self EXCEPT !.facades = "deleted", !.has_writer_lock = FALSE], a.w, 0)

\* Mutant: close releases the lock and keeps self._writer_lock.
close_keeps_token(self, w) ==
    LET a == acquire_writer_lock(self, w) IN
    IF a.err # "ok" THEN a
    ELSE LET w1 == [a.w EXCEPT !.lock = heads_release_writer_lock(a.w.lock, uuid4(self.id))] IN
         IF a.self.facades # "built"
         THEN Raise(a.self, w1, "AttributeError")
         ELSE Return([a.self EXCEPT !.facades = "deleted"], w1, 0)

\* Mutant: close releases the lock, deletes the token and keeps the facades.
close_keeps_facades(self, w) ==
    LET a == acquire_writer_lock(self, w) IN
    IF a.err # "ok" THEN a
    ELSE LET w1 == [a.w EXCEPT !.lock = heads_release_writer_lock(a.w.lock, uuid4(self.id))] IN
         IF a.self.facades # "built"
         THEN Raise(a.self, w1, "AttributeError")
         ELSE Return([a.self EXCEPT !.has_writer_lock = FALSE], w1, 0)

\* WriterCheckout.close
close(self, w) ==
    LET a == acquire_writer_lock(self, w) IN
    IF a.err # "ok" THEN a
    ELSE LET w1 == [a.w EXCEPT !.lock = heads_release_writer_lock(a.w.lock, uuid4(self.id))] IN
         IF a.self.facades # "built"
         THEN \* self._datasets.values() on None, or on a removed attribute
              Raise(a.self, w1, "AttributeError")
         ELSE Return([a.self EXCEPT !.facades = "deleted", !.has_writer_lock = FALSE], w1, 0)

\* Mutant: on a branch switch the staging base pointer is set before the
\* branch's head is looked up, also when there is no such branch.
setup_switch_unchecked(self, w) ==
    LET a == acquire_writer_lock(self, w) IN
    IF a.err # "ok" THEN a
    ELSE
    LET staged_status == staging_area_status(a.w)
        current_head  == get_staging_branch_head(a.w)
    IN
    IF staged_status = "DIRTY"
    THEN IF current_head # self.branch_name
         THEN LET c == close(a.self, a.w) IN
              IF c.err # "ok" THEN c ELSE Raise(c.self, c.w, "ValueError")
         ELSE Return([a.self EXCEPT !.facades = "built"], a.w, 0)
    ELSE IF current_head # self.branch_name
         THEN IF self.branch_name \notin DOMAIN a.w.heads
              THEN Raise(a.self, set_staging_branch_head(a.w, self.branch_name), "NotFound")
              ELSE LET commit_hash == get_branch_head_commit(a.w, self.branch_name)
                       w1 == replace_staging_area_with_commit(a.w, commit_hash)
                       w2 == set_staging_branch_head(w1, self.branch_name)
                   IN  Return([a.self EXCEPT !.facades = "built"], w2, 0)
         ELSE Return([a.self EXCEPT !.facades = "built"], a.w, 0)

\* Mutant: on a branch switch the stage is replaced and the staging base
\* pointer is left on the old branch.
setup_no_base_update(self, w) ==
    LET a == acquire_writer_lock(self, w) IN
    IF a.err # "ok" THEN a
    ELSE
    LET staged_status == staging_area_status(a.w)
        current_head  == get_staging_branch_head(a.w)
    IN
    IF staged_status = "DIRTY"
    THEN IF current_head # self.branch_name
         THEN LET c == close(a.self, a.w) IN
              IF c.err # "ok" THEN c ELSE Raise(c.self, c.w, "ValueError")
         ELSE Return([a.self EXCEPT !.facades = "built"], a.w, 0)
    ELSE IF current_head # self.branch_name
         THEN IF self.branch_name \notin DOMAIN a.w.heads
              THEN Raise(a.self, a.w, "NotFound")
              ELSE LET commit_hash == get_branch_head_commit(a.w, self.branch_name)
                       w1 == replace_staging_area_with_commit(a.w, commit_hash)
                   IN  Return([a.self EXCEPT !.facades = "built"], w1, 0)
         ELSE Return([a.self EXCEPT !.facades = "built"], a.w, 0)

\* WriterCheckout.__setup
setup(self, w) ==
    LET a == acquire_writer_lock(self, w) IN
    IF a.err # "ok" THEN a
    ELSE
    LET staged_status == staging_area_status(a.w)
        current_head  == get_staging_branch_head(a.w)
    IN
    IF staged_status = "DIRTY"
    THEN IF current_head # self.branch_name
         THEN LET c == close(a.self, a.w) IN
              IF c.err # "ok" THEN c ELSE Raise(c.self, c.w, "ValueError")
         ELSE Return([a.self EXCEPT !.facades = "built"], a.w, 0)
    ELSE IF current_head # self.branch_name
         THEN IF self.branch_name \notin DOMAIN a.w.heads
              THEN \* heads.get_branch_head_commit: no such branch
                   Raise(a.self, a.w, "NotFound")
              ELSE LET commit_hash == get_branch_head_commit(a.w, self.branch_name)
                       w1 == replace_staging_area_with_commit(a.w, commit_hash)
                       w2 == set_staging_branch_head(w1, self.branch_name)
                   IN  Return([a.self EXCEPT !.facades = "built"], w2, 0)
         ELSE Return([a.self EXCEPT !.facades = "built"], a.w, 0)

\* WriterCheckout.__init__
construct(n, branch_name, w) == setup(init(n, branch_name), w)

\* WriterCheckout.datasets
datasets(self, w) ==
    LET a == acquire_writer_lock(self, w) IN
    IF a.err # "ok" THEN a
    ELSE IF a.self.facades # "built" THEN Raise(a.self, a.w, "AttributeError")
    ELSE a

\* WriterCheckout.metadata
metadata(self, w) ==
    LET a == acquire_writer_lock(self, w) IN
    IF a.err # "ok" THEN a
    ELSE IF a.self.facades # "built" THEN Raise(a.self, a.w, "AttributeError")
    ELSE a

\* WriterCheckout.branch_name
branch_name(self, w) == acquire_writer_lock(self, w)

\* Mutant: commit ends by closing the checkout instead of setting it up again.
commit_closes(self, w, commit_message) ==
    LET a == acquire_writer_lock(self, w) IN
    IF a.err # "ok" THEN a
    ELSE IF staging_area_status(a.w) = "CLEAN" THEN Raise(a.self, a.w, "RuntimeError")
    ELSE IF a.self.facades # "built" THEN Raise(a.self, a.w, "AttributeError")
    ELSE LET cr == commit_records(a.w, commit_message)
             w1 == clear_stage_hash_records(cr.w)
             s  == close(a.self, w1)
         IN  IF s.err = "ok" THEN Return(s.self, s.w, cr.digest) ELSE s

\* Mutant: commit returns the digest the branch head had before the commit.
commit_returns_parent(self, w, commit_message) ==
    LET a == acquire_writer_lock(self, w) IN
    IF a.err # "ok" THEN a
    ELSE IF staging_area_status(a.w) = "CLEAN" THEN Raise(a.self, a.w, "RuntimeError")
    ELSE IF a.self.facades # "built" THEN Raise(a.self, a.w, "AttributeError")
    ELSE LET head == get_branch_head_commit(a.w, get_staging_branch_head(a.w))
             cr == commit_records(a.w, commit_message)
             w1 == clear_stage_hash_records(cr.w)
             s  == setup(a.self, w1)
         IN  IF s.err = "ok" THEN Return(s.self, s.w, head) ELSE s

\* Mutant: commit does not look at the staging status.
commit_no_clean_check(self, w, commit_message) ==
    LET a == acquire_writer_lock(self, w) IN
    IF a.err # "ok" THEN a
    ELSE IF a.self.facades # "built" THEN Raise(a.self, a.w, "AttributeError")
    ELSE LET cr == commit_records(a.w, commit_message)
             w1 == clear_stage_hash_records(cr.w)
             s  == setup(a.self, w1)
         IN  IF s.err = "ok" THEN Return(s.self, s.w, cr.digest) ELSE s

\* Mutant: the commit is recorded without a parent.
commit_orphan(self, w, commit_message) ==
    LET a == acquire_writer_lock(self, w) IN
    IF a.err # "ok" THEN a
    ELSE IF staging_area_status(a.w) = "CLEAN" THEN Raise(a.self, a.w, "RuntimeError")
    ELSE IF a.self.facades # "built" THEN Raise(a.self, a.w, "AttributeError")
    ELSE LET cr == commit_records(a.w, commit_message)
             w0 == [cr.w EXCEPT !.log[cr.digest].parents = {}]
             w1 == clear_stage_hash_records(w0)
             s  == setup(a.self, w1)
         IN  IF s.err = "ok" THEN Return(s.self, s.w, cr.digest) ELSE s

\* Mutant: commit leaves the staged hash records in stagehashenv.
commit_keeps_stage_hashes(self, w, commit_message) ==
    LET a == acquire_writer_lock(self, w) IN
    IF a.err # "ok" THEN a
    ELSE IF staging_area_status(a.w) = "CLEAN" THEN Raise(a.self, a.w, "RuntimeError")
    ELSE IF a.self.facades # "built" THEN Raise(a.self, a.w, "AttributeError")
    ELSE LET cr == commit_records(a.w, commit_message)
             s  == setup(a.self, cr.w)
         IN  IF s.err = "ok" THEN Return(s.self, s.w, cr.digest) ELSE s

\* One statement of the body of commit: the call made, the staged hash
\* records the call is handed (<<stagehashenv>> where it takes them, else
\* <<>>), and the object and the records once the call has returned.
Step(call, args, r) ==
    [call |-> call, args |-> args, self |-> r.self, w |-> r.w, err |-> r.err,
     ret |-> r.ret]

\* Mutant: the staged hash records are cleared before the unused payload
\* files are looked for and before the commit is written.
commit_steps_clear_first(self, w, commit_message) ==
    LET w1 == clear_stage_hash_records(w)
        cr == commit_records(w1, commit_message)
        s  == setup(self, cr.w)
    IN  << Step("_close", <<>>, Return(self, w, 0)),
           Step("clear_stage_hash_records", <<w.stagehash>>, Return(self, w1, 0)),
           Step("remove_unused_dataset_hdf_files", <<w1.stagehash>>, Return(self, w1, 0)),
           Step("commit_records", <<>>, Return(self, cr.w, cr.digest)),
           Step("__setup", <<>>, s) >>

\* The statements of WriterCheckout.commit after its guards, in order.
\* dsetHandle._close() and remove_unused_dataset_hdf_files write no record
\* of the repository; the second reads stagehashenv.
commit_steps(self, w, commit_message) ==
    LET cr == commit_records(w, commit_message)
        w1 == clear_stage_hash_records(cr.w)
        s  == setup(self, w1)
    IN  << Step("_close", <<>>, Return(self, w, 0)),
           Step("remove_unused_dataset_hdf_files", <<w.stagehash>>, Return(self, w, 0)),
           Step("commit_records", <<>>, Return(self, cr.w, cr.digest)),
           Step("clear_stage_hash_records", <<cr.w.stagehash>>, Return(self, w1, 0)),
           Step("__setup", <<>>, s) >>

\* WriterCheckout.commit
commit(self, w, commit_message) ==
    LET a == acquire_writer_lock(self, w) IN
    IF a.err # "ok" THEN a
    ELSE IF staging_area_status(a.w) = "CLEAN" THEN Raise(a.self, a.w, "RuntimeError")
    ELSE IF a.self.facades # "built" THEN Raise(a.self, a.w, "AttributeError")
    ELSE LET steps == commit_steps(a.self, a.w, commit_message)
             cr == steps[CHOOSE k \in 1..Len(steps) : steps[k].call = "commit_records"]
             s  == steps[Len(steps)]
         IN  IF s.err = "ok" THEN Return(s.self, s.w, cr.ret)
             ELSE Raise(s.self, s.w, s.err)

\* Mutant: reset does not look at the staging status.
reset_no_clean_check(self, w) ==
    LET a == acquire_writer_lock(self, w) IN
    IF a.err # "ok" THEN a
    ELSE IF a.self.facades # "built" THEN Raise(a.self, a.w, "AttributeError")
    ELSE LET w1 == remove_stage_hash_records_from_hashenv(a.w)
             w2 == clear_stage_hash_records(w1)
             branch_head == get_staging_branch_head(w2)
             head_commit == get_branch_head_commit(w2, branch_head)
             w3 == replace_staging_area_with_commit(w2, head_commit)
             s  == setup(a.self, w3)
         IN  IF s.err = "ok" THEN Return(s.self, s.w, head_commit) ELSE s

\* Mutant: reset clears the hash records and leaves the staged refs in place.
reset_no_replace(self, w) ==
    LET a == acquire_writer_lock(self, w) IN
    IF a.err # "ok" THEN a
    ELSE IF staging_area_status(a.w) = "CLEAN" THEN Raise(a.self, a.w, "RuntimeError")
    ELSE IF a.self.facades # "built" THEN Raise(a.self, a.w, "AttributeError")
    ELSE LET w1 == remove_stage_hash_records_from_hashenv(a.w)
             w2 == clear_stage_hash_records(w1)
             branch_head == get_staging_branch_head(w2)
             head_commit == get_branch_head_commit(w2, branch_head)
             s  == setup(a.self, w2)
         IN  IF s.err = "ok" THEN Return(s.self, s.w, head_commit) ELSE s

\* Mutant: reset removes every hash record, not only the staged ones.
reset_clears_hashenv(self, w) ==
    LET a == acquire_writer_lock(self, w) IN
    IF a.err # "ok" THEN a
    ELSE IF staging_area_status(a.w) = "CLEAN" THEN Raise(a.self, a.w, "RuntimeError")
    ELSE IF a.self.facades # "built" THEN Raise(a.self, a.w, "AttributeError")
    ELSE LET w1 == [a.w EXCEPT !.hashenv = {}]
             w2 == clear_stage_hash_records(w1)
             branch_head == get_staging_branch_head(w2)
             head_commit == get_branch_head_commit(w2, branch_head)
             w3 == replace_staging_area_with_commit(w2, head_commit)
             s  == setup(a.self, w3)
         IN  IF s.err = "ok" THEN Return(s.self, s.w, head_commit) ELSE s

\* WriterCheckout.reset_staging_area
reset_staging_area(self, w) ==
    LET a == acquire_writer_lock(self, w) IN
    IF a.err # "ok" THEN a
    ELSE IF staging_area_status(a.w) = "CLEAN" THEN Raise(a.self, a.w, "RuntimeError")
    ELSE IF a.self.facades # "built" THEN Raise(a.self, a.w, "AttributeError")
    ELSE LET w1 == remove_stage_hash_records_from_hashenv(a.w)
             w2 == clear_stage_hash_records(w1)
             branch_head == get_staging_branch_head(w2)
             head_commit == get_branch_head_commit(w2, branch_head)
             w3 == replace_staging_area_with_commit(w2, head_commit)
             s  == setup(a.self, w3)
         IN  IF s.err = "ok" THEN Return(s.self, s.w, head_commit) ELSE s

----------------------------------------------------------------------------
(* ReaderCheckout *)

\* commiting.tmp_mount_refs: the refs of commit c unpacked into a dataenv of
\* its own, which Repository.checkout hands to the ReaderCheckout.
tmp_mount_refs(w, c) == w.log[c].refs

\* Backend read_data of the record stored under a digest: the payload whose
\* hash the digest is (array_hash_digest keeps the content in second place).
read_data(digest) == digest[2]

\* Column read: ref -> digest -> hashenv record -> backend read.
column_get(refs, w, key) ==
    IF key \notin DOMAIN refs THEN [err |-> "KeyError", ret |-> 0]
    ELSE IF refs[key] \notin w.hashenv THEN [err |-> "KeyError", ret |-> 0]
    ELSE [err |-> "ok", ret |-> read_data(refs[key])]

\* cm_weakref_obj_proxy(obj): a weak proxy of a facade object; it is "live"
\* while the checkout still references that object and "dead" afterwards.
cm_weakref_obj_proxy(facades) == IF facades = "built" THEN "live" ELSE "dead"

\* Use of a weak proxy: a dead one raises instead of reaching the object.
proxy_use(proxy) == IF proxy = "live" THEN "ok" ELSE "ReferenceError"

\* ReaderCheckout.__init__
\* handles: whether the column objects hold backend file handles open.
\* closed is not an attribute: it records that close() returned on the object.
reader_init(dataenv, commit_hash) ==
    [commit_hash |-> commit_hash, dataenv |-> dataenv, facades |-> "built",
     handles |-> "closed", closed |-> FALSE]

RRaise(self, err) == [self |-> self, err |-> err, ret |-> 0]

RReturn(self, ret) == [self |-> self, err |-> "ok", ret |-> ret]

\* ReaderCheckout.__verify_checkout_alive
verify_checkout_alive(self) ==
    IF self.facades = "built" THEN RReturn(self, 0) ELSE RRaise(self, "PermissionError")

\* ReaderCheckout.datasets
reader_datasets(self) == verify_checkout_alive(self)

\* ReaderCheckout.metadata
reader_metadata(self) == verify_checkout_alive(self)

\* ReaderCheckout.commit_hash
reader_commit_hash(self) ==
    LET v == verify_checkout_alive(self) IN
    IF v.err # "ok" THEN v ELSE RReturn(self, self.commit_hash)

\* Mutant: close closes the column handles and keeps the facades.
reader_close_keeps_facades(self) ==
    LET v == verify_checkout_alive(self) IN
    IF v.err # "ok" THEN v
    ELSE RReturn([self EXCEPT !.handles = "closed"], 0)

\* ReaderCheckout.close
reader_close(self) ==
    LET v == verify_checkout_alive(self) IN
    IF v.err # "ok" THEN v
    ELSE RReturn([self EXCEPT !.handles = "closed", !.facades = "deleted"], 0)

----------------------------------------------------------------------------
(* Column facade: a column that contains subsamples. *)

\* A sample or subsample key is a string or an integer in [0, 999_999].
valid_key(key) == key[1] = "str" \/ (key[2] >= 0 /\ key[2] <= MaxIntKey)

NoSubsamples == [s \in {} |-> array_hash_digest("zeros")]

\* The subsample refs stored under a sample key.
subsamples(col, key) == IF key \in DOMAIN col.refs THEN col.refs[key] ELSE NoSubsamples

\* Mutant: the assignment replaces the subsamples stored under the key.
nested_set_replaces(col, key, subkey, val) ==
    IF ~valid_key(key) \/ ~valid_key(subkey) THEN [col |-> col, err |-> "ValueError"]
    ELSE LET digest == array_hash_digest(val)
             sub == [s \in {subkey} |-> digest]
         IN  [col |-> [refs |-> [k \in DOMAIN col.refs \cup {key} |->
                                    IF k = key THEN sub ELSE col.refs[k]],
                       store |-> [d \in DOMAIN col.store \cup {digest} |->
                                    IF d \in DOMAIN col.store THEN col.store[d] ELSE val]],
              err |-> "ok"]

\* Mutant: the assignment keeps the ref already stored under (key, subkey).
nested_set_keeps_old(col, key, subkey, val) ==
    IF ~valid_key(key) \/ ~valid_key(subkey) THEN [col |-> col, err |-> "ValueError"]
    ELSE LET digest == array_hash_digest(val)
             old == subsamples(col, key)
             sub == [s \in DOMAIN old \cup {subkey} |->
                        IF s \in DOMAIN old THEN old[s] ELSE digest]
         IN  [col |-> [refs |-> [k \in DOMAIN col.refs \cup {key} |->
                                    IF k = key THEN sub ELSE col.refs[k]],
                       store |-> [d \in DOMAIN col.store \cup {digest} |->
                                    IF d \in DOMAIN col.store THEN col.store[d] ELSE val]],
              err |-> "ok"]

\* col[key] = {subkey: val}: check the keys, hash the value, store the
\* payload if its digest is new, and put the ref under (key, subkey) next to
\* the subsamples the key already has.
nested_set(col, key, subkey, val) ==
    IF ~valid_key(key) \/ ~valid_key(subkey) THEN [col |-> col, err |-> "ValueError"]
    ELSE LET digest == array_hash_digest(val)
             old == subsamples(col, key)
             sub == [s \in DOMAIN old \cup {subkey} |->
                        IF s = subkey THEN digest ELSE old[s]]
         IN  [col |-> [refs |-> [k \in DOMAIN col.refs \cup {key} |->
                                    IF k = key THEN sub ELSE col.refs[k]],
                       store |-> [d \in DOMAIN col.store \cup {digest} |->
                                    IF d \in DOMAIN col.store THEN col.store[d] ELSE val]],
              err |-> "ok"]

\* col[key][subkey]: ref -> digest -> stored payload.
nested_get(col, key, subkey) ==
    IF key \notin DOMAIN col.refs \/ subkey \notin DOMAIN col.refs[key]
    THEN [err |-> "KeyError", ret |-> 0]
    ELSE [err |-> "ok", ret |-> col.store[col.refs[key][subkey]]]

\* len(col)
nested_len(col) == Cardinality(DOMAIN col.refs)

\* len(col[key])
nested_sublen(col, key) == Cardinality(DOMAIN col.refs[key])

----------------------------------------------------------------------------
(* Context management: `with` blocks on a checkout and on its accessors. *)

\* Mutant: leaving a block of an accessor clears its state, whoever else
\* holds it.
accessor_exit_clears(cm, a) == [cm EXCEPT ![a] = 0]

\* accessor.__enter__: one more block holds the accessor's handles open.
accessor_enter(cm, a) == [cm EXCEPT ![a] = @ + 1]

\* accessor.__exit__: the block lets go; the last one out closes the handles.
accessor_exit(cm, a) == [cm EXCEPT ![a] = @ - 1]

\* accessor._is_conman
is_conman(cm, a) == cm[a] > 0

\* co.columns._any_is_conman()
any_is_conman(cm) == \E a \in Accessors \ {"metadata"} : is_conman(cm, a)

\* checkout.__enter__: enters every column and the metadata accessor.
checkout_enter(cm) == [a \in Accessors |-> accessor_enter(cm, a)[a]]

\* checkout.__exit__: leaves every column and the metadata accessor.
checkout_exit(cm) == [a \in Accessors |-> accessor_exit(cm, a)[a]]

----------------------------------------------------------------------------
(* The integrity verifier (diagnostics/integrity.py). *)

\* No records at all.
NoRecords ==
    [branchenv |-> [heads |-> <<>>, staging |-> ""],
     refenv |-> [commits |-> {}, parents |-> <<>>, refs |-> <<>>],
     hashenv |-> [arrays |-> <<>>, schemas |-> <<>>],
     labelenv |-> <<>>,
     repo_path |-> <<>>]

\* No audit run: the function called and the order it met the records in,
\* the audits that ran, the exception raised ("ok" when the call returned),
\* the message of that exception, the warnings emitted, the records read
\* from a backend and the backends opened and closed, one entry for each
\* call of open and of close, in the order of the calls.
NoReport == [call |-> "none", order |-> <<>>, ran |-> <<>>, err |-> "ok",
             msg |-> <<>>, warned |-> <<>>, read |-> <<>>, opened |-> <<>>,
             closed |-> <<>>]

\* An audit that returns.
Passes(audit) == [NoReport EXCEPT !.ran = <<audit>>]

\* raise RuntimeError(msg)
Corruption(audit, msg) ==
    [NoReport EXCEPT !.ran = <<audit>>, !.err = "RuntimeError", !.msg = msg]

\* The least of a non-empty set of positions: where a loop stops.
First(S) == CHOOSE i \in S : \A j \in S : i <= j

\* Every order in which the members of S can be met.
Orders(S) ==
    {s \in [1..Cardinality(S) -> S] : \A x \in S : \E i \in DOMAIN s : s[i] = x}

\* `for x in S`: the members of S in the order `order` meets them.
Iter(S, order) == SelectSeq(order, LAMBDA x : x \in S)

\* hashmachine.hash_type_code_from_digest(digest)
hash_type_code_from_digest(digest) == digest[1]

\* hashmachine.array_hash_digest(array, tcode=tcode)
array_hash_digest_tcode(array, tcode) == <<tcode, array>>

\* hashmachine.schema_hash_digest(schema, tcode=tcode)
schema_hash_digest(schema, tcode) == <<tcode, schema>>

\* hashmachine.metadata_hash_digest(value, tcode=tcode)
metadata_hash_digest(value, tcode) == <<tcode, value>>

\* The keys of the dict that `if k not in bes: bes[k] = ...` builds from the
\* sequence s of keys met: each key once, in the order first met.
Keys(s) ==
    LET met[i \in 0..Len(s)] ==
            IF i = 0 THEN <<>>
            ELSE IF \E j \in DOMAIN met[i-1] : met[i-1][j] = s[i]
                 THEN met[i-1]
                 ELSE Append(met[i-1], s[i])
    IN  met[Len(s)]

\* BACKEND_ACCESSOR_MAP[spec.backend](repo_path, ...).read_data(spec):
\* "absent" stands for the read raising, the backend holding no payload
\* for the spec.
backend_read_data(repo_path, spec) ==
    IF spec \in DOMAIN repo_path THEN repo_path[spec] ELSE "absent"

\* commiting.check_commit_hash_in_history(refenv, commit_hash)
check_commit_hash_in_history(refenv, commit_hash) ==
    commit_hash \in refenv.commits

\* Mutant: every array is hashed again under the default type code.
verify_array_integrity_default_tcode(hashes, repo_path, o) ==
    LET recs == Iter(DOMAIN hashes.arrays, o.data)
        narrays == Len(recs)
        spec(i) == hashes.arrays[recs[i]]
        data(i) == backend_read_data(repo_path, spec(i))
        calc_digest(i) ==
            array_hash_digest_tcode(data(i), "0")
        \* the records whose read raises, and those whose digest differs
        unread == {i \in 1..narrays : spec(i).islocal /\ data(i) = "absent"}
        bad == {i \in 1..narrays :
                    spec(i).islocal /\ data(i) # "absent" /\ calc_digest(i) # recs[i]}
        raised == bad \cup unread # {}
        \* the last record the loop reaches
        stop == IF raised THEN First(bad \cup unread) ELSE narrays
        nremote == Cardinality({i \in 1..stop : ~spec(i).islocal})
        \* the backend of every record met is opened when first met, before
        \* islocal is looked at, and closed in the finally block
        bes == Keys([i \in 1..stop |-> spec(i).backend])
        seen == [NoReport EXCEPT
                    !.ran = <<"arrays">>,
                    !.read = SelectSeq(SubSeq(recs, 1, stop),
                                       LAMBDA d : hashes.arrays[d].islocal),
                    !.opened = bes,
                    !.closed = bes]
    IN  IF stop \in unread
        THEN [seen EXCEPT !.err = "OSError"]
        ELSE IF stop \in bad
        THEN [seen EXCEPT !.err = "RuntimeError",
                          !.msg = <<"array", recs[stop], calc_digest(stop)>>]
        ELSE IF nremote > 0
        THEN [seen EXCEPT !.warned = << <<nremote, narrays>> >>]
        ELSE seen

\* Mutant: the records that are not local are read and hashed as well.
verify_array_integrity_reads_remote(hashes, repo_path, o) ==
    LET recs == Iter(DOMAIN hashes.arrays, o.data)
        narrays == Len(recs)
        spec(i) == hashes.arrays[recs[i]]
        data(i) == backend_read_data(repo_path, spec(i))
        calc_digest(i) ==
            array_hash_digest_tcode(data(i), hash_type_code_from_digest(recs[i]))
        \* the records whose read raises, and those whose digest differs
        unread == {i \in 1..narrays : data(i) = "absent"}
        bad == {i \in 1..narrays :
                    data(i) # "absent" /\ calc_digest(i) # recs[i]}
        raised == bad \cup unread # {}
        \* the last record the loop reaches
        stop == IF raised THEN First(bad \cup unread) ELSE narrays
        nremote == Cardinality({i \in 1..stop : ~spec(i).islocal})
        \* the backend of every record met is opened when first met, before
        \* islocal is looked at, and closed in the finally block
        bes == Keys([i \in 1..stop |-> spec(i).backend])
        seen == [NoReport EXCEPT
                    !.ran = <<"arrays">>,
                    !.read = SubSeq(recs, 1, stop),
                    !.opened = bes,
                    !.closed = bes]
    IN  IF stop \in unread
        THEN [seen EXCEPT !.err = "OSError"]
        ELSE IF stop \in bad
        THEN [seen EXCEPT !.err = "RuntimeError",
                          !.msg = <<"array", recs[stop], calc_digest(stop)>>]
        ELSE IF nremote > 0
        THEN [seen EXCEPT !.warned = << <<nremote, narrays>> >>]
        ELSE seen

\* Mutant: the backends are closed after the loop, with no finally block.
verify_array_integrity_no_finally(hashes, repo_path, o) ==
    LET recs == Iter(DOMAIN hashes.arrays, o.data)
        narrays == Len(recs)
        spec(i) == hashes.arrays[recs[i]]
        data(i) == backend_read_data(repo_path, spec(i))
        calc_digest(i) ==
            array_hash_digest_tcode(data(i), hash_type_code_from_digest(recs[i]))
        \* the records whose read raises, and those whose digest differs
        unread == {i \in 1..narrays : spec(i).islocal /\ data(i) = "absent"}
        bad == {i \in 1..narrays :
                    spec(i).islocal /\ data(i) # "absent" /\ calc_digest(i) # recs[i]}
        raised == bad \cup unread # {}
        \* the last record the loop reaches
        stop == IF raised THEN First(bad \cup unread) ELSE narrays
        nremote == Cardinality({i \in 1..stop : ~spec(i).islocal})
        \* the backend of every record met is opened when first met, before
        \* islocal is looked at, and closed in the finally block
        bes == Keys([i \in 1..stop |-> spec(i).backend])
        seen == [NoReport EXCEPT
                    !.ran = <<"arrays">>,
                    !.read = SelectSeq(SubSeq(recs, 1, stop),
                                       LAMBDA d : hashes.arrays[d].islocal),
                    !.opened = bes,
                    !.closed = IF raised THEN <<>> ELSE bes]
    IN  IF stop \in unread
        THEN [seen EXCEPT !.err = "OSError"]
        ELSE IF stop \in bad
        THEN [seen EXCEPT !.err = "RuntimeError",
                          !.msg = <<"array", recs[stop], calc_digest(stop)>>]
        ELSE IF nremote > 0
        THEN [seen EXCEPT !.warned = << <<nremote, narrays>> >>]
        ELSE seen

\* _verify_array_integrity(hashenv, repo_path): hashes.arrays are the data
\* records of hashenv (digest -> backend spec), repo_path the payloads the
\* backends hold, o.data the order the records are met in.
verify_array_integrity(hashes, repo_path, o) ==
    LET recs == Iter(DOMAIN hashes.arrays, o.data)
        narrays == Len(recs)
        spec(i) == hashes.arrays[recs[i]]
        data(i) == backend_read_data(repo_path, spec(i))
        calc_digest(i) ==
            array_hash_digest_tcode(data(i), hash_type_code_from_digest(recs[i]))
        \* the records whose read raises, and those whose digest differs
        unread == {i \in 1..narrays : spec(i).islocal /\ data(i) = "absent"}
        bad == {i \in 1..narrays :
                    spec(i).islocal /\ data(i) # "absent" /\ calc_digest(i) # recs[i]}
        raised == bad \cup unread # {}
        \* the last record the loop reaches
        stop == IF raised THEN First(bad \cup unread) ELSE narrays
        nremote == Cardinality({i \in 1..stop : ~spec(i).islocal})
        \* the backend of every record met is opened when first met, before
        \* islocal is looked at, and closed in the finally block
        bes == Keys([i \in 1..stop |-> spec(i).backend])
        seen == [NoReport EXCEPT
                    !.ran = <<"arrays">>,
                    !.read = SelectSeq(SubSeq(recs, 1, stop),
                                       LAMBDA d : hashes.arrays[d].islocal),
                    !.opened = bes,
                    !.closed = bes]
    IN  IF stop \in unread
        THEN [seen EXCEPT !.err = "OSError"]
        ELSE IF stop \in bad
        THEN [seen EXCEPT !.err = "RuntimeError",
                          !.msg = <<"array", recs[stop], calc_digest(stop)>>]
        ELSE IF nremote > 0
        THEN [seen EXCEPT !.warned = << <<nremote, narrays>> >>]
        ELSE seen

\* _verify_schema_integrity(hashenv): hashes.schemas are the schema records
\* of hashenv (digest -> schema value).
verify_schema_integrity(hashes, o) ==
    LET recs == Iter(DOMAIN hashes.schemas, o.schema)
        calc_digest(i) ==
            schema_hash_digest(hashes.schemas[recs[i]],
                               hash_type_code_from_digest(recs[i]))
        bad == {i \in 1..Len(recs) : calc_digest(i) # recs[i]}
    IN  IF bad # {}
        THEN Corruption("schemas", <<"schema", recs[First(bad)],
                                     calc_digest(First(bad))>>)
        ELSE Passes("schemas")

\* _verify_metadata_integrity(labelenv): digest -> metadata value.
verify_metadata_integrity(labelenv, o) ==
    LET recs == Iter(DOMAIN labelenv, o.meta)
        calc_digest(i) ==
            metadata_hash_digest(labelenv[recs[i]],
                                 hash_type_code_from_digest(recs[i]))
        bad == {i \in 1..Len(recs) : calc_digest(i) # recs[i]}
    IN  IF bad # {}
        THEN Corruption("metadata", <<"metadata", recs[First(bad)],
                                      calc_digest(First(bad))>>)
        ELSE Passes("metadata")

verify_commit_tree_integrity_dev_unchecked(refenv, o) ==
    LET all_commits == refenv.commits
        cmts == Iter(all_commits, o.commits)
        recorded(i) == cmts[i] \in DOMAIN refenv.parents
        parents(i) == refenv.parents[cmts[i]]
        no_master(i) ==
            /\ recorded(i)
            /\ parents(i).master_ancestor # ""
            /\ parents(i).master_ancestor \notin all_commits
        initial(i) ==
            /\ recorded(i)
            /\ parents(i).master_ancestor = ""
            /\ parents(i).dev_ancestor = ""
        initialCmt(i) == {j \in 1..(i - 1) : initial(j)}
        second(i) == initial(i) /\ initialCmt(i) # {}
        bad == {i \in 1..Len(cmts) : ~recorded(i) \/ no_master(i) \/ second(i)}
        stop == First(bad)
    IN  IF bad = {} THEN Passes("commit tree")
        ELSE IF ~recorded(stop)
        THEN Corruption("commit tree", <<"no parent ref", cmts[stop]>>)
        ELSE IF no_master(stop)
        THEN Corruption("commit tree",
                        <<"no master ancestor", cmts[stop],
                          parents(stop).master_ancestor>>)
        ELSE Corruption("commit tree",
                        <<"multiple initial",
                          cmts[First(initialCmt(stop))], cmts[stop]>>)

verify_commit_tree_integrity_any_initial(refenv, o) ==
    LET all_commits == refenv.commits
        cmts == Iter(all_commits, o.commits)
        recorded(i) == cmts[i] \in DOMAIN refenv.parents
        parents(i) == refenv.parents[cmts[i]]
        no_master(i) ==
            /\ recorded(i)
            /\ parents(i).master_ancestor # ""
            /\ parents(i).master_ancestor \notin all_commits
        no_dev(i) ==
            /\ recorded(i)
            /\ parents(i).dev_ancestor # ""
            /\ parents(i).dev_ancestor \notin all_commits
        bad == {i \in 1..Len(cmts) : ~recorded(i) \/ no_master(i) \/ no_dev(i)}
        stop == First(bad)
    IN  IF bad = {} THEN Passes("commit tree")
        ELSE IF ~recorded(stop)
        THEN Corruption("commit tree", <<"no parent ref", cmts[stop]>>)
        ELSE IF no_master(stop)
        THEN Corruption("commit tree",
                        <<"no master ancestor", cmts[stop],
                          parents(stop).master_ancestor>>)
        ELSE Corruption("commit tree",
                        <<"no dev ancestor", cmts[stop],
                          parents(stop).dev_ancestor>>)

\* _verify_commit_tree_integrity(refenv): refenv.commits are the commits
\* listed, refenv.parents the parent records (commit -> ancestors), o.commits
\* the order set(all_commits) is met in.
verify_commit_tree_integrity(refenv, o) ==
    LET all_commits == refenv.commits
        cmts == Iter(all_commits, o.commits)
        recorded(i) == cmts[i] \in DOMAIN refenv.parents
        parents(i) == refenv.parents[cmts[i]]
        no_master(i) ==
            /\ recorded(i)
            /\ parents(i).master_ancestor # ""
            /\ parents(i).master_ancestor \notin all_commits
        no_dev(i) ==
            /\ recorded(i)
            /\ parents(i).dev_ancestor # ""
            /\ parents(i).dev_ancestor \notin all_commits
        initial(i) ==
            /\ recorded(i)
            /\ parents(i).master_ancestor = ""
            /\ parents(i).dev_ancestor = ""
        \* initialCmt is not None when commit i is met
        initialCmt(i) == {j \in 1..(i - 1) : initial(j)}
        second(i) == initial(i) /\ initialCmt(i) # {}
        bad == {i \in 1..Len(cmts) :
                    ~recorded(i) \/ no_master(i) \/ no_dev(i) \/ second(i)}
        stop == First(bad)
    IN  IF bad = {} THEN Passes("commit tree")
        ELSE IF ~recorded(stop)
        THEN Corruption("commit tree", <<"no parent ref", cmts[stop]>>)
        ELSE IF no_master(stop)
        THEN Corruption("commit tree",
                        <<"no master ancestor", cmts[stop],
                          parents(stop).master_ancestor>>)
        ELSE IF no_dev(stop)
        THEN Corruption("commit tree",
                        <<"no dev ancestor", cmts[stop],
                          parents(stop).dev_ancestor>>)
        ELSE Corruption("commit tree",
                        <<"multiple initial",
                          cmts[First(initialCmt(stop))], cmts[stop]>>)

verify_commit_ref_digests_exist_first_commit(hashes, labelenv, refenv, o) ==
    LET cmts == SubSeq(Iter(refenv.commits, o.commits), 1, 1)
        array_data_digests(i) == Iter(refenv.refs[cmts[i]].data, o.data)
        schema_digests(i) == Iter(refenv.refs[cmts[i]].schema, o.schema)
        meta_digests(i) == Iter(refenv.refs[cmts[i]].meta, o.meta)
        no_data(i) == {k \in DOMAIN array_data_digests(i) :
                          array_data_digests(i)[k] \notin DOMAIN hashes.arrays}
        no_schema(i) == {k \in DOMAIN schema_digests(i) :
                            schema_digests(i)[k] \notin DOMAIN hashes.schemas}
        no_meta(i) == {k \in DOMAIN meta_digests(i) :
                          meta_digests(i)[k] \notin DOMAIN labelenv}
        bad == {i \in 1..Len(cmts) :
                    no_data(i) # {} \/ no_schema(i) # {} \/ no_meta(i) # {}}
        stop == First(bad)
        bound(i) == {j \in 1..i : array_data_digests(j) # <<>>}
        datadigest(i) ==
            LET j == CHOOSE x \in bound(i) : \A y \in bound(i) : y <= x
            IN  array_data_digests(j)[Len(array_data_digests(j))]
    IN  IF bad = {} THEN Passes("commit ref digests")
        ELSE IF no_data(stop) # {}
        THEN Corruption("commit ref digests",
                        <<"array data", cmts[stop],
                          array_data_digests(stop)[First(no_data(stop))]>>)
        ELSE IF no_schema(stop) # {}
        THEN Corruption("commit ref digests",
                        <<"schema", cmts[stop],
                          schema_digests(stop)[First(no_schema(stop))]>>)
        ELSE IF bound(stop) = {}
        THEN [Passes("commit ref digests") EXCEPT !.err = "UnboundLocalError"]
        ELSE Corruption("commit ref digests",
                        <<"metadata", cmts[stop], datadigest(stop)>>)

\* _verify_commit_ref_digests_exist(hashenv, labelenv, refenv):
\* refenv.refs[cmt] are the digests commit cmt references, o.commits the
\* order list_all_commits gives, o.data, o.schema and o.meta the orders
\* the digest sets are met in.
verify_commit_ref_digests_exist(hashes, labelenv, refenv, o) ==
    LET cmts == Iter(refenv.commits, o.commits)
        array_data_digests(i) == Iter(refenv.refs[cmts[i]].data, o.data)
        schema_digests(i) == Iter(refenv.refs[cmts[i]].schema, o.schema)
        meta_digests(i) == Iter(refenv.refs[cmts[i]].meta, o.meta)
        no_data(i) == {k \in DOMAIN array_data_digests(i) :
                          array_data_digests(i)[k] \notin DOMAIN hashes.arrays}
        no_schema(i) == {k \in DOMAIN schema_digests(i) :
                            schema_digests(i)[k] \notin DOMAIN hashes.schemas}
        no_meta(i) == {k \in DOMAIN meta_digests(i) :
                          meta_digests(i)[k] \notin DOMAIN labelenv}
        bad == {i \in 1..Len(cmts) :
                    no_data(i) # {} \/ no_schema(i) # {} \/ no_meta(i) # {}}
        stop == First(bad)
        \* `datadigest` once the data loop of commit i is over: the last
        \* data digest met, in this commit or an earlier one; unbound when
        \* no commit so far referenced array data
        bound(i) == {j \in 1..i : array_data_digests(j) # <<>>}
        datadigest(i) ==
            LET j == CHOOSE x \in bound(i) : \A y \in bound(i) : y <= x
            IN  array_data_digests(j)[Len(array_data_digests(j))]
    IN  IF bad = {} THEN Passes("commit ref digests")
        ELSE IF no_data(stop) # {}
        THEN Corruption("commit ref digests",
                        <<"array data", cmts[stop],
                          array_data_digests(stop)[First(no_data(stop))]>>)
        ELSE IF no_schema(stop) # {}
        THEN Corruption("commit ref digests",
                        <<"schema", cmts[stop],
                          schema_digests(stop)[First(no_schema(stop))]>>)
        \* line 162 formats `datadigest`, not `metadigest`
        ELSE IF bound(stop) = {}
        THEN [Passes("commit ref digests") EXCEPT !.err = "UnboundLocalError"]
        ELSE Corruption("commit ref digests",
                        <<"metadata", cmts[stop], datadigest(stop)>>)

verify_branch_integrity_no_staging_check(branchenv, refenv, o) ==
    LET branch_names == Iter(DOMAIN branchenv.heads, o.branches)
        bhead(i) == branchenv.heads[branch_names[i]]
        bad == {i \in 1..Len(branch_names) :
                    ~check_commit_hash_in_history(refenv, bhead(i))}
    IN  IF Len(branch_names) < 1
        THEN Corruption("branches", <<"no branches">>)
        ELSE IF bad # {}
        THEN Corruption("branches", <<"head", branch_names[First(bad)],
                                      bhead(First(bad))>>)
        ELSE Passes("branches")

\* _verify_branch_integrity(branchenv, refenv): branchenv.heads are the
\* branch records (name -> head commit), branchenv.staging the staging base.
verify_branch_integrity(branchenv, refenv, o) ==
    LET branch_names == Iter(DOMAIN branchenv.heads, o.branches)
        bhead(i) == branchenv.heads[branch_names[i]]
        bad == {i \in 1..Len(branch_names) :
                    ~check_commit_hash_in_history(refenv, bhead(i))}
        staging_bname == branchenv.staging
    IN  IF Len(branch_names) < 1
        THEN Corruption("branches", <<"no branches">>)
        ELSE IF bad # {}
        THEN Corruption("branches", <<"head", branch_names[First(bad)],
                                      bhead(First(bad))>>)
        ELSE IF staging_bname \notin DOMAIN branchenv.heads
        THEN Corruption("branches", <<"staging", staging_bname>>)
        ELSE Passes("branches")

\* One call after another: an exception ends the sequence.
and_then(rep, next) ==
    IF rep.err # "ok" THEN rep ELSE [next EXCEPT !.ran = rep.ran \o next.ran]

run_verification_metadata_first(branchenv, hashes, labelenv, refenv, repo_path, o) ==
    and_then(and_then(and_then(and_then(and_then(
        verify_branch_integrity(branchenv, refenv, o),
        verify_commit_tree_integrity(refenv, o)),
        verify_commit_ref_digests_exist(hashes, labelenv, refenv, o)),
        verify_metadata_integrity(labelenv, o)),
        verify_schema_integrity(hashes, o)),
        verify_array_integrity(hashes, repo_path, o))

\* run_verification(branchenv, hashenv, labelenv, refenv, repo_path)
run_verification(branchenv, hashes, labelenv, refenv, repo_path, o) ==
    and_then(and_then(and_then(and_then(and_then(
        verify_branch_integrity(branchenv, refenv, o),
        verify_commit_tree_integrity(refenv, o)),
        verify_commit_ref_digests_exist(hashes, labelenv, refenv, o)),
        verify_schema_integrity(hashes, o)),
        verify_metadata_integrity(labelenv, o)),
        verify_array_integrity(hashes, repo_path, o))

----------------------------------------------------------------------------
(* Backend selection (backends/selection.py). *)

\* The arrays tried: a 0-d array holds one element, the others any count
\* around the two size limits of the heuristics.
Sizes == {0, 1, 399, 400, 401, 9999999, 10000000, 10000001}

NdArrays ==
    {[ndim |-> 0, size |-> 1]}
        \cup {[ndim |-> n, size |-> s] : n \in 1..MaxNdim, s \in Sizes}

Prototypes == [array : NdArrays, variable_shape : BOOLEAN]

backend_from_heuristics_flat_inclusive(array, variable_shape) ==
    IF (array.ndim = 1) /\ (array.size <= 400) THEN "10"
    ELSE IF (array.ndim = 1) /\ (array.size <= 10000000) THEN "00"
    ELSE IF variable_shape = FALSE THEN "01"
    ELSE "00"

\* backend_from_heuristics(array, variable_shape)
backend_from_heuristics(array, variable_shape) ==
    IF (array.ndim = 1) /\ (array.size < 400) THEN "10"
    ELSE IF (array.ndim = 1) /\ (array.size <= 10000000) THEN "00"
    ELSE IF variable_shape = FALSE THEN "01"
    ELSE "00"

\* BACKEND_ACCESSOR_MAP.keys(): the registered backend codes.
BACKEND_ACCESSOR_MAP == {"00", "01", "10", "30", "50"}

\* BACKEND_IS_LOCAL_MAP: a code is local when its first character is one of
\* "01234" or a lower-case letter.
BACKEND_IS_LOCAL_MAP ==
    [k \in BACKEND_ACCESSOR_MAP |-> k \in {"00", "01", "10", "30"}]

\* s.startswith('blosc:') over the complib names tried.
startswith_blosc(s) == s \in {"blosc:zstd", "blosc:lz4hc"}

backend_opts_from_heuristics_no_fallback(backend, array, variable_shape, hdf5BloscAvail) ==
    LET none == [k \in {} |-> ""]
        backup == [shuffle |-> "byte", complib |-> "lzf", complevel |-> "None"]
    IN
    IF backend = "10" THEN [err |-> "ok", opts |-> none]
    ELSE IF backend = "00"
    THEN [err |-> "ok",
          opts |-> IF hdf5BloscAvail
                   THEN [shuffle |-> "None", complib |-> "blosc:zstd",
                         complevel |-> "3"]
                   ELSE backup]
    ELSE IF backend = "01"
    THEN [err |-> "ok",
          opts |-> IF hdf5BloscAvail
                   THEN [complib |-> "blosc:lz4hc", complevel |-> "5",
                         shuffle |-> "byte"]
                   ELSE backup]
    ELSE IF backend = "50" THEN [err |-> "ok", opts |-> none]
    ELSE [err |-> "ValueError", opts |-> none]

backend_opts_from_heuristics_no_numpy(backend, array, variable_shape, hdf5BloscAvail) ==
    LET none == [k \in {} |-> ""]
        backup == [shuffle |-> "byte", complib |-> "lzf", complevel |-> "None"]
    IN
    IF backend = "00"
    THEN LET opts == IF hdf5BloscAvail
                     THEN [shuffle |-> "None", complib |-> "blosc:zstd",
                           complevel |-> "3"]
                     ELSE backup
         IN  [err |-> "ok",
              opts |-> IF startswith_blosc(opts.complib)
                          /\ array.size * array.itemsize < 16
                       THEN backup ELSE opts]
    ELSE IF backend = "01"
    THEN LET opts == IF hdf5BloscAvail
                     THEN [complib |-> "blosc:lz4hc", complevel |-> "5",
                           shuffle |-> "byte"]
                     ELSE backup
         IN  [err |-> "ok",
              opts |-> IF startswith_blosc(opts.complib)
                          /\ array.size * array.itemsize < 16
                       THEN backup ELSE opts]
    ELSE IF backend = "50" THEN [err |-> "ok", opts |-> none]
    ELSE [err |-> "ValueError", opts |-> none]

\* backend_opts_from_heuristics(backend, array, variable_shape): the opts
\* dict, or the exception raised; hdf5BloscAvail is what
\* h5py.h5z.filter_avail(32001) answers and array.nbytes is size * itemsize.
backend_opts_from_heuristics(backend, array, variable_shape, hdf5BloscAvail) ==
    LET none == [k \in {} |-> ""]
        backup == [shuffle |-> "byte", complib |-> "lzf", complevel |-> "None"]
    IN
    IF backend = "10" THEN [err |-> "ok", opts |-> none]
    ELSE IF backend = "00"
    THEN LET opts == IF hdf5BloscAvail
                     THEN [shuffle |-> "None", complib |-> "blosc:zstd",
                           complevel |-> "3"]
                     ELSE backup
         IN  [err |-> "ok",
              opts |-> IF startswith_blosc(opts.complib)
                          /\ array.size * array.itemsize < 16
                       THEN backup ELSE opts]
    ELSE IF backend = "01"
    THEN LET opts == IF hdf5BloscAvail
                     THEN [complib |-> "blosc:lz4hc", complevel |-> "5",
                           shuffle |-> "byte"]
                     ELSE backup
         IN  [err |-> "ok",
              opts |-> IF startswith_blosc(opts.complib)
                          /\ array.size * array.itemsize < 16
                       THEN backup ELSE opts]
    ELSE IF backend = "50" THEN [err |-> "ok", opts |-> none]
    ELSE [err |-> "ValueError", opts |-> none]

parse_user_backend_opts_dict_unchecked(backend_opts, array, variable_shape, hdf5BloscAvail) ==
    LET failed(err) == [err |-> err, backend |-> "", opts |-> [k \in {} |-> ""]]
    IN
    IF backend_opts.type = "str"
    THEN IF backend_opts.val \notin BACKEND_ACCESSOR_MAP
         THEN failed("ValueError")
         ELSE LET backend == backend_opts.val
                  h == backend_opts_from_heuristics(backend, array,
                                                    variable_shape,
                                                    hdf5BloscAvail)
              IN  IF h.err # "ok" THEN failed(h.err)
                  ELSE [err |-> "ok", backend |-> backend, opts |-> h.opts]
    ELSE IF backend_opts.type = "dict"
    THEN IF "backend" \notin DOMAIN backend_opts.val
         THEN failed("KeyError")
         ELSE LET backend == backend_opts.val["backend"]
                  opts == [k \in DOMAIN backend_opts.val \ {"backend"} |->
                              backend_opts.val[k]]
              IN  IF /\ backend \in {"00", "01"}
                     /\ "complib" \in DOMAIN opts
                     /\ startswith_blosc(opts["complib"])
                     /\ array.size * array.itemsize < 16
                  THEN failed("ValueError")
                  ELSE [err |-> "ok", backend |-> backend, opts |-> opts]
    ELSE IF backend_opts.type = "NoneType"
    THEN LET backend == backend_from_heuristics(array, variable_shape)
             h == backend_opts_from_heuristics(backend, array,
                                               variable_shape, hdf5BloscAvail)
         IN  IF h.err # "ok" THEN failed(h.err)
             ELSE [err |-> "ok", backend |-> backend, opts |-> h.opts]
    ELSE failed("ValueError")

\* parse_user_backend_opts(backend_opts, prototype, variable_shape): the
\* BackendOpts returned, or the exception raised. backend_opts is a Python
\* value [type, val]: a str, a dict (val its items), None or something else;
\* `array` is the prototype.
parse_user_backend_opts(backend_opts, array, variable_shape, hdf5BloscAvail) ==
    LET failed(err) == [err |-> err, backend |-> "", opts |-> [k \in {} |-> ""]]
    IN
    IF backend_opts.type = "str"
    THEN IF backend_opts.val \notin BACKEND_ACCESSOR_MAP
         THEN failed("ValueError")
         ELSE LET backend == backend_opts.val
                  h == backend_opts_from_heuristics(backend, array,
                                                    variable_shape,
                                                    hdf5BloscAvail)
              IN  IF h.err # "ok" THEN failed(h.err)
                  ELSE [err |-> "ok", backend |-> backend, opts |-> h.opts]
    ELSE IF backend_opts.type = "dict"
    THEN \* backend_opts['backend'] on a dict without the key
         IF "backend" \notin DOMAIN backend_opts.val
         THEN failed("KeyError")
         ELSE IF backend_opts.val["backend"] \notin BACKEND_ACCESSOR_MAP
         THEN failed("ValueError")
         ELSE LET backend == backend_opts.val["backend"]
                  opts == [k \in DOMAIN backend_opts.val \ {"backend"} |->
                              backend_opts.val[k]]
              IN  IF /\ backend \in {"00", "01"}
                     /\ "complib" \in DOMAIN opts
                     /\ startswith_blosc(opts["complib"])
                     /\ array.size * array.itemsize < 16
                  THEN failed("ValueError")
                  ELSE [err |-> "ok", backend |-> backend, opts |-> opts]
    ELSE IF backend_opts.type = "NoneType"
    THEN LET backend == backend_from_heuristics(array, variable_shape)
             h == backend_opts_from_heuristics(backend, array,
                                               variable_shape, hdf5BloscAvail)
         IN  IF h.err # "ok" THEN failed(h.err)
             ELSE [err |-> "ok", backend |-> backend, opts |-> h.opts]
    ELSE failed("ValueError")

----------------------------------------------------------------------------
(* The calls a user makes. *)

\* The repository's records after a call, from its result.
Store(r) ==
    /\ writerLock' = r.w.lock
    /\ branchHeads' = r.w.heads
    /\ stagingBranch' = r.w.sbranch
    /\ commitLog' = r.w.log
    /\ stageenv' = r.w.stage
    /\ hashenv' = r.w.hashenv
    /\ stagehashenv' = r.w.stagehash

\* The call left writer i without the facade objects it had before: the
\* attributes were deleted, or __setup bound new objects to them.
drops_facades(op, r) ==
    r.self.facades # "built" \/ (op \in {"commit", "reset"} /\ r.err = "ok")

\* The proxies the user holds after a call on writer i: the proxy of a
\* facade object that is no longer referenced is dead.
ProxiesAfter(i, op, r) ==
    [o \in DOMAIN proxies |->
        IF o = <<"w", i>> /\ drops_facades(op, r) THEN "dead" ELSE proxies[o]]

\* A call of method `op` on the checkout object i that ended as r.
Called(i, op, r) ==
    /\ Store(r)
    /\ writers' = [writers EXCEPT ![i] = r.self]
    /\ proxies' = ProxiesAfter(i, op, r)
    /\ last' = [op |-> op, w |-> i, err |-> r.err, ret |-> r.ret]
    /\ UNCHANGED <<minted, readers, facade, offline>>

\* The checkout objects the user holds: those whose construction returned.
\* An object whose __init__ raised is never bound to a name.
Held == DOMAIN writers

\* A new repository with no checkout made.
Fresh ==
    /\ writerLock = LockSentinel
    /\ branchHeads = [b \in {"master"} |-> 1]
    /\ stagingBranch = "master"
    /\ commitLog = <<[parents |-> {}, message |-> "", refs |-> NoRefs]>>
    /\ stageenv = NoRefs
    /\ hashenv = {}
    /\ stagehashenv = {}
    /\ minted = 0
    /\ writers = [i \in {} |-> init(i, "master")]
    /\ readers = [j \in {} |-> reader_init(NoRefs, 1)]
    /\ proxies = [o \in {} |-> "live"]
    /\ column = [refs |-> [k \in {} |-> NoSubsamples],
                 store |-> [d \in {} |-> "zeros"]]
    /\ added = [k \in {} |-> {}]
    /\ stack = <<>>
    /\ conman = [a \in Accessors |-> 0]
    /\ last = [op |-> "init", w |-> 0, err |-> "ok", ret |-> 0]

\* Nothing handed to the verifier.
NoAudit == audited = NoRecords /\ report = NoReport

\* Nothing handed to the backend selection.
NoSelection ==
    /\ prototype = [array |-> [ndim |-> 0, size |-> 1], variable_shape |-> FALSE]
    /\ selected = "none"

Init == Fresh /\ NoAudit /\ NoSelection

\* repo.checkout(write=True, branch=b): WriterCheckout(...)
Construct(b) ==
    /\ minted < MaxWriters
    /\ LET n == minted + 1
           r == construct(n, b, World)
       IN  /\ Store(r)
           /\ minted' = n
           /\ writers' = IF r.err = "ok"
                         THEN [i \in DOMAIN writers \cup {n} |->
                                  IF i = n THEN r.self ELSE writers[i]]
                         ELSE writers
           /\ last' = [op |-> "construct", w |-> n, err |-> r.err, ret |-> 0]
           /\ UNCHANGED <<readers, proxies, facade, offline>>

\* co.datasets
Datasets(i) == Called(i, "datasets", datasets(writers[i], World))

\* co.metadata
Metadata(i) == Called(i, "metadata", metadata(writers[i], World))

\* co.branch_name
BranchName(i) == Called(i, "branch_name", branch_name(writers[i], World))

\* co.datasets[column][key] = payload
SetSample(i, key, payload) ==
    LET d == datasets(writers[i], World) IN
    Called(i, "set", IF d.err # "ok" THEN d
                     ELSE Return(d.self, column_set(d.w, key, payload), 0))

\* del co.datasets[column][key]
DelSample(i, key) ==
    LET d == datasets(writers[i], World) IN
    /\ d.err = "ok" => key \in DOMAIN stageenv
    /\ Called(i, "del", IF d.err # "ok" THEN d
                        ELSE Return(d.self, column_del(d.w, key), 0))

\* co.commit(message)
Commit(i, m) ==
    LET r == commit(writers[i], World, m) IN
    /\ r.err = "ok" => Len(commitLog) < MaxCommits
    /\ Called(i, "commit", r)

\* co.reset_staging_area()
ResetStagingArea(i) == Called(i, "reset", reset_staging_area(writers[i], World))

\* co.close()
Close(i) ==
    LET r == close(writers[i], World) IN
    Called(i, "close", IF r.err = "ok" THEN [r EXCEPT !.self.closed = TRUE] ELSE r)

\* repo.create_branch(name, base_commit)
CreateBranch(b, c) ==
    /\ b \notin DOMAIN branchHeads
    /\ c \in 1..Len(commitLog)
    /\ branchHeads' = [x \in DOMAIN branchHeads \cup {b} |->
                          IF x = b THEN c ELSE branchHeads[x]]
    /\ last' = [op |-> "create_branch", w |-> 0, err |-> "ok", ret |-> 0]
    /\ UNCHANGED <<writerLock, stagingBranch, commitLog, stageenv, hashenv,
                   stagehashenv, minted, writers, readers, proxies, facade,
                   offline>>

\* repo.force_release_writer_lock(): the lock cleared by hand
ForceReleaseWriterLock ==
    /\ writerLock # LockSentinel
    /\ writerLock' = LockSentinel
    /\ last' = [op |-> "force_release", w |-> 0, err |-> "ok", ret |-> 0]
    /\ UNCHANGED <<repo, minted, writers, readers, proxies, facade, offline>>

Next ==
    \/ \E b \in BranchNames : Construct(b)
    \/ \E i \in Held : Datasets(i)
    \/ \E i \in Held : Metadata(i)
    \/ \E i \in Held : BranchName(i)
    \/ \E i \in Held, k \in SampleKeys, p \in Payloads : SetSample(i, k, p)
    \/ \E i \in Held, k \in SampleKeys : DelSample(i, k)
    \/ \E i \in Held, m \in Messages : Commit(i, m)
    \/ \E i \in Held : ResetStagingArea(i)
    \/ \E i \in Held : Close(i)
    \/ \E b \in BranchNames, c \in 1..MaxCommits : CreateBranch(b, c)

\* The repository driven through its checkouts alone.
Spec == Init /\ [][Next]_vars

NextForce ==
    \/ \E b \in BranchNames : Construct(b)
    \/ \E i \in Held : Datasets(i)
    \/ \E i \in Held : Metadata(i)
    \/ \E i \in Held : BranchName(i)
    \/ \E i \in Held, k \in SampleKeys, p \in Payloads : SetSample(i, k, p)
    \/ \E i \in Held, k \in SampleKeys : DelSample(i, k)
    \/ \E i \in Held, m \in Messages : Commit(i, m)
    \/ \E i \in Held : ResetStagingArea(i)
    \/ \E i \in Held : Close(i)
    \/ ForceReleaseWriterLock

\* A repository whose branch set stays as initialised, with the writer lock
\* also cleared by hand (a lock left behind by a checkout never closed).
SpecForce == Init /\ [][NextForce]_vars

----------------------------------------------------------------------------
(* Readers next to the writer, and accessors kept by the user. *)

\* The proxies the user holds once owner o handed out a proxy.
Holding(o, proxy) ==
    [x \in DOMAIN proxies \cup {o} |-> IF x = o THEN proxy ELSE proxies[x]]

\* A call on the reader checkout j that ended as r.
ReaderCalled(j, op, r) ==
    /\ readers' = [readers EXCEPT ![j] = r.self]
    /\ proxies' = [o \in DOMAIN proxies |->
                      IF o = <<"r", j>> /\ r.self.facades # "built"
                      THEN "dead" ELSE proxies[o]]
    /\ last' = [op |-> op, w |-> j, err |-> r.err, ret |-> r.ret]
    /\ UNCHANGED <<writerLock, repo, minted, writers, facade, offline>>

\* repo.checkout(write=False, commit=c): ReaderCheckout(...)
ReaderConstruct(c) ==
    /\ Cardinality(DOMAIN readers) < MaxReaders
    /\ c \in 1..Len(commitLog)
    /\ LET j == Cardinality(DOMAIN readers) + 1
           self == reader_init(tmp_mount_refs(World, c), c)
       IN  /\ readers' = [x \in DOMAIN readers \cup {j} |->
                             IF x = j THEN self ELSE readers[x]]
           /\ last' = [op |-> "r_construct", w |-> j, err |-> "ok", ret |-> 0]
    /\ UNCHANGED <<writerLock, repo, minted, writers, proxies, facade, offline>>

\* rco.datasets
ReaderDatasets(j) == ReaderCalled(j, "r_datasets", reader_datasets(readers[j]))

\* d = rco.datasets, kept by the user
ReaderTakeDatasets(j) ==
    LET r == reader_datasets(readers[j]) IN
    /\ readers' = [readers EXCEPT ![j] = r.self]
    /\ proxies' = IF r.err = "ok"
                  THEN Holding(<<"r", j>>, cm_weakref_obj_proxy(r.self.facades))
                  ELSE proxies
    /\ last' = [op |-> "r_datasets", w |-> j, err |-> r.err, ret |-> 0]
    /\ UNCHANGED <<writerLock, repo, minted, writers, facade, offline>>

\* rco.metadata
ReaderMetadata(j) == ReaderCalled(j, "r_metadata", reader_metadata(readers[j]))

\* rco.commit_hash
ReaderCommitHash(j) == ReaderCalled(j, "r_commit_hash", reader_commit_hash(readers[j]))

\* rco.datasets[column][key]
ReaderGet(j, key) ==
    LET d == reader_datasets(readers[j])
        g == column_get(d.self.dataenv, World, key)
    IN  ReaderCalled(j, "r_get",
            IF d.err # "ok" THEN d
            ELSE IF g.err # "ok" THEN RRaise(d.self, g.err)
            ELSE RReturn([d.self EXCEPT !.handles = "open"], g.ret))

\* rco.close()
ReaderClose(j) ==
    LET r == reader_close(readers[j]) IN
    ReaderCalled(j, "r_close", IF r.err = "ok" THEN [r EXCEPT !.self.closed = TRUE] ELSE r)

\* d[column][key] through the proxy d of a reader's datasets kept earlier
ReaderProxyGet(j, key) ==
    /\ <<"r", j>> \in DOMAIN proxies
    /\ LET u == proxy_use(proxies[<<"r", j>>])
           g == column_get(readers[j].dataenv, World, key)
       IN  ReaderCalled(j, "r_proxy_get",
               IF u # "ok" THEN RRaise(readers[j], u)
               ELSE IF g.err # "ok" THEN RRaise(readers[j], g.err)
               ELSE RReturn([readers[j] EXCEPT !.handles = "open"], g.ret))

\* d = co.datasets, kept by the user
TakeDatasets(i) ==
    LET r == datasets(writers[i], World) IN
    /\ Store(r)
    /\ writers' = [writers EXCEPT ![i] = r.self]
    /\ proxies' = IF r.err = "ok"
                  THEN Holding(<<"w", i>>, cm_weakref_obj_proxy(r.self.facades))
                  ELSE ProxiesAfter(i, "datasets", r)
    /\ last' = [op |-> "datasets", w |-> i, err |-> r.err, ret |-> 0]
    /\ UNCHANGED <<minted, readers, facade, offline>>

\* d[column][key] = payload through the proxy d of a writer's datasets kept
\* earlier
ProxySet(i, key, payload) ==
    /\ <<"w", i>> \in DOMAIN proxies
    /\ LET u == proxy_use(proxies[<<"w", i>>]) IN
       Called(i, "w_proxy_set",
           IF u # "ok" THEN Raise(writers[i], World, u)
           ELSE Return(writers[i], column_set(World, key, payload), 0))

\* d[column][key] through the proxy d of a writer's datasets kept earlier
ProxyGet(i, key) ==
    /\ <<"w", i>> \in DOMAIN proxies
    /\ LET u == proxy_use(proxies[<<"w", i>>])
           g == column_get(stageenv, World, key)
       IN  Called(i, "w_proxy_get",
               IF u # "ok" THEN Raise(writers[i], World, u)
               ELSE IF g.err # "ok" THEN Raise(writers[i], World, g.err)
               ELSE Return(writers[i], World, g.ret))

Readers == DOMAIN readers

\* The repository's writer checkout, opened once on the staging base.
ConstructOnce == minted = 0 /\ Construct("master")

NextReaders ==
    \/ ConstructOnce
    \/ \E i \in Held, k \in SampleKeys, p \in Payloads : SetSample(i, k, p)
    \/ \E i \in Held, k \in SampleKeys : DelSample(i, k)
    \/ \E i \in Held, m \in Messages : Commit(i, m)
    \/ \E i \in Held : ResetStagingArea(i)
    \/ \E i \in Held : Close(i)
    \/ \E c \in 1..MaxCommits : ReaderConstruct(c)
    \/ \E j \in Readers : ReaderDatasets(j)
    \/ \E j \in Readers : ReaderMetadata(j)
    \/ \E j \in Readers : ReaderCommitHash(j)
    \/ \E j \in Readers, k \in SampleKeys : ReaderGet(j, k)
    \/ \E j \in Readers : ReaderClose(j)

\* Readers pinned to commits next to one writer of the "master" branch.
SpecReaders == Init /\ [][NextReaders]_vars

NextProxies ==
    \/ ConstructOnce
    \/ \E i \in Held : TakeDatasets(i)
    \/ \E i \in Held, k \in SampleKeys, p \in Payloads : ProxySet(i, k, p)
    \/ \E i \in Held, k \in SampleKeys : ProxyGet(i, k)
    \/ \E i \in Held, m \in Messages : Commit(i, m)
    \/ \E i \in Held : ResetStagingArea(i)
    \/ \E i \in Held : Close(i)
    \/ \E c \in 1..MaxCommits : ReaderConstruct(c)
    \/ \E j \in Readers : ReaderTakeDatasets(j)
    \/ \E j \in Readers, k \in SampleKeys : ReaderProxyGet(j, k)
    \/ \E j \in Readers : ReaderClose(j)

\* A writer and readers whose datasets accessors the user keeps and uses.
SpecProxies == Init /\ [][NextProxies]_vars

----------------------------------------------------------------------------
(* A nested column of an open writer checkout, written key by key. *)

\* added_samples_subsamples[key].add(subkey)
track(key, subkey) ==
    [k \in DOMAIN added \cup {key} |->
        IF k = key THEN (IF key \in DOMAIN added THEN added[key] ELSE {}) \cup {subkey}
        ELSE added[k]]

\* col[key] = {subkey: val}, and the test's record of the keys assigned
NestedAssign(key, subkey, val) ==
    LET r == nested_set(column, key, subkey, val) IN
    /\ column' = r.col
    /\ added' = IF r.err = "ok" THEN track(key, subkey) ELSE added
    /\ last' = [op |-> "col_set", w |-> 0, err |-> r.err, ret |-> 0]
    /\ UNCHANGED <<repo, checkouts, stack, conman, offline>>

NextNested ==
    \E key \in KeyInputs, subkey \in SubkeyInputs, val \in Arrays :
        NestedAssign(key, subkey, val)

\* One nested column under any sequence of assignments.
SpecNested == Init /\ [][NextNested]_vars

----------------------------------------------------------------------------
(* `with` blocks, entered and left innermost first. *)

ExitOp(block) ==
    [co |-> "exit_co", foo |-> "exit_foo", bar |-> "exit_bar",
     metadata |-> "exit_metadata"][block]

\* with co:
EnterCheckout ==
    /\ Len(stack) < MaxDepth
    /\ \A n \in 1..Len(stack) : stack[n] # "co"
    /\ stack' = Append(stack, "co")
    /\ conman' = checkout_enter(conman)
    /\ last' = [op |-> "enter_co", w |-> 0, err |-> "ok", ret |-> 0]
    /\ UNCHANGED <<repo, checkouts, column, added, offline>>

\* with fooaset as foo:
EnterAccessor(a) ==
    /\ Len(stack) < MaxDepth
    /\ stack' = Append(stack, a)
    /\ conman' = accessor_enter(conman, a)
    /\ last' = [op |-> "enter", w |-> 0, err |-> "ok", ret |-> 0]
    /\ UNCHANGED <<repo, checkouts, column, added, offline>>

\* The end of the innermost `with` block.
ExitBlock ==
    /\ stack # <<>>
    /\ LET block == stack[Len(stack)] IN
       /\ stack' = SubSeq(stack, 1, Len(stack) - 1)
       /\ conman' = IF block = "co" THEN checkout_exit(conman)
                    ELSE accessor_exit(conman, block)
       /\ last' = [op |-> ExitOp(block), w |-> 0, err |-> "ok", ret |-> 0]
    /\ UNCHANGED <<repo, checkouts, column, added, offline>>

NextConman ==
    \/ EnterCheckout
    \/ \E a \in Accessors : EnterAccessor(a)
    \/ ExitBlock

\* One checkout whose `with` blocks nest in any order.
SpecConman == Init /\ [][NextConman]_vars


----------------------------------------------------------------------------
(* The verifier, run on sound and on damaged repositories. *)

CommitIds == {"a", "b"}

\* A digest no commit record is stored under.
Dangling == "z"

\* Data digests under two array schemes, one schema and one metadata digest.
DataDigests == {<<"0", "zeros">>, <<"3", "ones">>}

SchemaDigests == {<<"1", "float32">>}

MetaDigests == {<<"2", "hello">>}

\* Where a data record says its payload is.
LocalSpec(d) ==
    [backend |-> IF d[1] = "0" THEN "00" ELSE "10", islocal |-> TRUE,
     uid |-> d[2]]

RemoteSpec(d) == [backend |-> "50", islocal |-> FALSE, uid |-> d[2]]

\* The data records of hashenv and the payloads of the backends, where
\* choice[d] tells how digest d is stored: not at all ("absent"), in a local
\* backend with its payload intact ("local"), altered ("corrupt") or gone
\* ("unreadable"), or on a remote only ("remote").
ArrayRecords(choice) ==
    [d \in {d \in DataDigests : choice[d] # "absent"} |->
        IF choice[d] = "remote" THEN RemoteSpec(d) ELSE LocalSpec(d)]

BackendFiles(choice) ==
    LET held == {d \in DataDigests : choice[d] \in {"local", "corrupt"}}
    IN  [sp \in {LocalSpec(d) : d \in held} |->
            LET d == CHOOSE d \in held : LocalSpec(d) = sp
            IN  IF choice[d] = "local" THEN d[2]
                ELSE IF d[2] = "zeros" THEN "ones" ELSE "zeros"]

\* Schema and metadata records: choice[d] is "absent", "good" or "corrupt".
ValueRecords(digests, choice) ==
    [d \in {d \in digests : choice[d] # "absent"} |->
        IF choice[d] = "good" THEN d[2] ELSE "garbled"]

AllOf(digests, how) == [d \in digests |-> how]

\* A repository with one branch, two commits and every record in place.
Sound ==
    [branchenv |-> [heads |-> [b \in {"master"} |-> "b"],
                    staging |-> "master"],
     refenv |->
        [commits |-> CommitIds,
         parents |-> [c \in CommitIds |->
                        [master_ancestor |-> IF c = "a" THEN "" ELSE "a",
                         dev_ancestor |-> ""]],
         refs |-> [c \in CommitIds |->
                        [data |-> IF c = "a" THEN {<<"0", "zeros">>}
                                  ELSE DataDigests,
                         schema |-> SchemaDigests,
                         meta |-> MetaDigests]]],
     hashenv |-> [arrays |-> ArrayRecords(AllOf(DataDigests, "local")),
                  schemas |-> ValueRecords(SchemaDigests,
                                           AllOf(SchemaDigests, "good"))],
     labelenv |-> ValueRecords(MetaDigests, AllOf(MetaDigests, "good")),
     repo_path |-> BackendFiles(AllOf(DataDigests, "local"))]

\* Every branch map over the two branch names.
BranchInputs ==
    {[Sound EXCEPT !.branchenv = [heads |-> h, staging |-> s]] :
        h \in UNION {[B -> CommitIds \cup {Dangling}] : B \in SUBSET BranchNames},
        s \in BranchNames \cup {"gone"}}

Ancestors ==
    [master_ancestor : CommitIds \cup {"", Dangling},
     dev_ancestor : CommitIds \cup {"", Dangling}]

\* Every commit set with every parent record, kept or lost.
TreeInputs ==
    {[Sound EXCEPT !.refenv =
            [commits |-> C, parents |-> p,
             refs |-> [c \in C |-> Sound.refenv.refs[c]]]] :
        C \in SUBSET CommitIds,
        p \in UNION {[P -> Ancestors] : P \in SUBSET CommitIds}}

\* What the two commits reference, against what the hash dbs hold.
RefInputs ==
    {[Sound EXCEPT
        !.refenv.refs = [c \in CommitIds |-> IF c = "a" THEN ra ELSE rb],
        !.hashenv = [arrays |-> [d \in da |-> LocalSpec(d)],
                     schemas |-> [d \in ds |-> d[2]]],
        !.labelenv = [d \in dm |-> d[2]]] :
        ra \in [data : SUBSET DataDigests, schema : SUBSET SchemaDigests,
                meta : SUBSET MetaDigests],
        rb \in [data : SUBSET {<<"3", "ones">>}, schema : {{}},
                meta : SUBSET MetaDigests],
        da \in SUBSET DataDigests, ds \in SUBSET SchemaDigests,
        dm \in SUBSET MetaDigests}

\* Every way the records and payloads can be stored.
HashInputs ==
    {[Sound EXCEPT
        !.hashenv = [arrays |-> ArrayRecords(ca),
                     schemas |-> ValueRecords(SchemaDigests, cs)],
        !.labelenv = ValueRecords(MetaDigests, cm),
        !.repo_path = BackendFiles(ca)] :
        ca \in [DataDigests -> {"absent", "local", "corrupt", "unreadable",
                                 "remote"}],
        cs \in [SchemaDigests -> {"absent", "good", "corrupt"}],
        cm \in [MetaDigests -> {"absent", "good", "corrupt"}]}

\* Each part of the repository sound or damaged in one way.
MixedInputs ==
    {[branchenv |-> IF b THEN Sound.branchenv
                    ELSE [Sound.branchenv EXCEPT !.staging = "gone"],
      refenv |-> [Sound.refenv EXCEPT
                    !.parents = IF t THEN @
                                ELSE [c \in {"a"} |-> @[c]],
                    !.refs = IF r THEN @
                             ELSE [@ EXCEPT !["a"].data = {}]],
      hashenv |-> [arrays |-> ArrayRecords(
                                [AllOf(DataDigests, "local") EXCEPT
                                    ![<<"0", "zeros">>] =
                                        IF d THEN "local" ELSE "corrupt",
                                    ![<<"3", "ones">>] =
                                        IF r THEN "local" ELSE "absent"]),
                   schemas |-> ValueRecords(SchemaDigests,
                                 AllOf(SchemaDigests,
                                       IF s THEN "good" ELSE "corrupt"))],
      labelenv |-> ValueRecords(MetaDigests,
                     AllOf(MetaDigests, IF m THEN "good" ELSE "corrupt")),
      repo_path |-> BackendFiles(
                        [AllOf(DataDigests, "local") EXCEPT
                            ![<<"0", "zeros">>] =
                                IF d THEN "local" ELSE "corrupt",
                            ![<<"3", "ones">>] =
                                IF r THEN "local" ELSE "absent"])] :
        b \in BOOLEAN, t \in BOOLEAN, r \in BOOLEAN, s \in BOOLEAN,
        m \in BOOLEAN, d \in BOOLEAN}

Audited ==
    BranchInputs \cup TreeInputs \cup RefInputs \cup HashInputs
        \cup MixedInputs

\* The orders in which the audits can meet the records.
IterOrders ==
    [branches : Orders(BranchNames), commits : Orders(CommitIds),
     data : Orders(DataDigests), schema : Orders(SchemaDigests),
     meta : Orders(MetaDigests)]

\* The orders that differ in the stores `stores` alone.
OrdersOf(stores) ==
    LET any == CHOOSE o \in IterOrders : TRUE
    IN  {o \in IterOrders : \A f \in DOMAIN o \ stores : o[f] = any[f]}

\* A call made on the repository: nothing but the report changes.
Audit(call, rep) ==
    /\ report' = [rep EXCEPT !.call = call]
    /\ UNCHANGED <<repo, checkouts, facade, last, audited, prototype, selected>>

VerifyBranchIntegrity(o) ==
    Audit("verify_branch_integrity",
          verify_branch_integrity(audited.branchenv, audited.refenv, o))

VerifyCommitTreeIntegrity(o) ==
    Audit("verify_commit_tree_integrity",
          verify_commit_tree_integrity(audited.refenv, o))

VerifyCommitRefDigestsExist(o) ==
    Audit("verify_commit_ref_digests_exist",
          verify_commit_ref_digests_exist(audited.hashenv, audited.labelenv,
                                          audited.refenv, o))

VerifySchemaIntegrity(o) ==
    Audit("verify_schema_integrity",
          verify_schema_integrity(audited.hashenv, o))

VerifyMetadataIntegrity(o) ==
    Audit("verify_metadata_integrity",
          verify_metadata_integrity(audited.labelenv, o))

VerifyArrayIntegrity(o) ==
    Audit("verify_array_integrity",
          verify_array_integrity(audited.hashenv, audited.repo_path, o))

RunVerification(o) ==
    Audit("run_verification",
          [run_verification(audited.branchenv, audited.hashenv,
                            audited.labelenv, audited.refenv,
                            audited.repo_path, o) EXCEPT !.order = o])

InitVerify ==
    /\ Fresh
    /\ NoSelection
    /\ audited \in Audited
    /\ report = NoReport

NextVerify ==
    \/ \E o \in OrdersOf({"branches"}) : VerifyBranchIntegrity(o)
    \/ \E o \in OrdersOf({"commits"}) : VerifyCommitTreeIntegrity(o)
    \/ \E o \in OrdersOf({"commits", "data", "schema", "meta"}) :
          VerifyCommitRefDigestsExist(o)
    \/ \E o \in OrdersOf({"schema"}) : VerifySchemaIntegrity(o)
    \/ \E o \in OrdersOf({"meta"}) : VerifyMetadataIntegrity(o)
    \/ \E o \in OrdersOf({"data"}) : VerifyArrayIntegrity(o)
    \/ \E o \in IterOrders : RunVerification(o)

SpecVerify == InitVerify /\ [][NextVerify]_vars

----------------------------------------------------------------------------
(* Backend selection, called with one prototype after another. *)

\* The caller holds another prototype array and variable_shape flag.
NewPrototype(array, variable_shape) ==
    /\ prototype' = [array |-> array, variable_shape |-> variable_shape]
    /\ selected' = "none"
    /\ UNCHANGED <<repo, checkouts, facade, last, audited, report>>

\* backend_from_heuristics(array, variable_shape) on the prototype held
Select ==
    /\ selected' = backend_from_heuristics(prototype.array,
                                           prototype.variable_shape)
    /\ UNCHANGED <<repo, checkouts, facade, last, audited, report, prototype>>

InitSelect ==
    /\ Fresh
    /\ NoAudit
    /\ prototype \in Prototypes
    /\ selected = "none"

NextSelect ==
    \/ \E p \in Prototypes : NewPrototype(p.array, p.variable_shape)
    \/ Select

SpecSelect == InitSelect /\ [][NextSelect]_vars

----------------------------------------------------------------------------
(* Option parsing, called once on what a user passes as backend_opts. *)

\* The calls tried: arrays of 1 or 4 byte items around 16 bytes and around
\* the size limits of the heuristics; backend_opts a code (one of them not
\* registered), a dict with or without `backend` and `complib`, None, or an
\* int; the blosc filter available or not.
ParseInputs ==
    [array : {[ndim |-> 0, size |-> 1, itemsize |-> i] : i \in {1, 4}}
                \cup [ndim : 1..MaxParseNdim,
                      size : {3, 4, 16, 400, 10000001}, itemsize : {1, 4}],
     variable_shape : BOOLEAN,
     hdf5BloscAvail : BOOLEAN,
     backend_opts :
        {[type |-> "NoneType", val |-> ""], [type |-> "int", val |-> ""]}
            \cup [type : {"str"}, val : BACKEND_ACCESSOR_MAP \cup {"20"}]
            \cup [type : {"dict"},
                  val : UNION {[K -> BACKEND_ACCESSOR_MAP
                                        \cup {"20", "blosc:zstd", "lzf"}] :
                                  K \in SUBSET {"backend", "complib"}}]]

\* parse_user_backend_opts(backend_opts, prototype, variable_shape)
Parse ==
    /\ selected' = parse_user_backend_opts(prototype.backend_opts,
                                           prototype.array,
                                           prototype.variable_shape,
                                           prototype.hdf5BloscAvail)
    /\ UNCHANGED <<repo, checkouts, facade, last, audited, report, prototype>>

InitParse ==
    /\ Fresh
    /\ NoAudit
    /\ prototype \in ParseInputs
    /\ selected = [err |-> "none", backend |-> "", opts |-> [k \in {} |-> ""]]

SpecParse == InitParse /\ [][Parse]_vars

----------------------------------------------------------------------------
(* Properties of the writer checkout. *)

\* The calls on a checkout object that start with __acquire_writer_lock.
WriterOps == {"datasets", "metadata", "branch_name", "commit", "reset", "close", "set", "del"}

\* The open writer checkouts: constructed and not yet closed.
OpenWriters == {i \in Held : ~writers[i].closed}

\* The refs of the staging base branch's head commit.
HeadRefs == commitLog[branchHeads[stagingBranch]].refs

\* Checkout i carries the token stored in branchenv.
HoldsLock(i) == writers[i].has_writer_lock /\ writerLock = uuid4(i)

\* C1: at most one writer checkout is open at any time, and constructing a
\* WriterCheckout while one is open fails with PermissionError (lock-held),
\* giving the caller no object and leaving the stored lock as it was.
C1_SingleOpenWriter ==
    /\ [](Cardinality(OpenWriters) <= 1)
    /\ [][(minted' # minted /\ OpenWriters # {})
            => /\ last'.err = "PermissionError"
               /\ writers' = writers
               /\ writerLock' = writerLock]_vars

\* A construction was refused while a writer checkout was open.
C1_Witness ==
    /\ last.op = "construct" /\ last.err = "PermissionError"
    /\ OpenWriters # {}

\* The last construction returned a checkout that has since been closed: no
\* construction was attempted since that close.
AfterClose == minted \in Held /\ writers[minted].closed

\* C2 as stated: after close() the stored lock is free and the next
\* construction succeeds, whichever existing branch it names.
C2_NextConstructionSucceeds ==
    /\ [](AfterClose => writerLock = LockSentinel)
    /\ [][\A b \in DOMAIN branchHeads :
            (AfterClose /\ Construct(b)) => last'.err = "ok"]_vars

\* C2, amended: after close() the stored lock is free; the next construction
\* is never refused with PermissionError (lock-held), and it succeeds when it
\* names the staging base branch, or an existing branch while the stage is
\* CLEAN.
C2_LockFreeAfterClose ==
    /\ [](AfterClose => writerLock = LockSentinel)
    /\ [][\A b \in BranchNames :
            (AfterClose /\ Construct(b))
            => /\ last'.err # "PermissionError"
               /\ (b = stagingBranch
                   \/ (staging_area_status(World) = "CLEAN" /\ b \in DOMAIN branchHeads))
                  => /\ last'.err = "ok"
                     /\ minted' \in DOMAIN writers'
                     /\ writerLock' = uuid4(minted')]_vars

\* A second writer was constructed after the first one, which committed, was
\* closed.
C2_Witness ==
    /\ last.op = "construct" /\ last.err = "ok" /\ last.w > 1
    /\ Len(commitLog) > 1
    /\ \E i \in Held : i < last.w /\ writers[i].closed

\* C3: every call on a closed writer checkout fails with PermissionError,
\* leaves it closed, and changes neither the stored lock, the stage, the
\* branch heads nor the commits.
C3_ClosedStaysClosed ==
    [][(last'.op \in WriterOps /\ last'.w \in Held /\ writers[last'.w].closed)
        => /\ last'.err = "PermissionError"
           /\ writers'[last'.w].closed
           /\ ~writers'[last'.w].has_writer_lock
           /\ UNCHANGED <<writerLock, stageenv, stagingBranch, branchHeads, commitLog>>]_vars

\* A commit on a closed checkout failed while another writer held the lock.
C3_Witness ==
    /\ last.op = "commit" /\ last.err = "PermissionError"
    /\ writers[last.w].closed
    /\ writerLock # LockSentinel

\* The stored lock is another writer's token, not the one checkout i carries.
Stale(i) == writers[i].has_writer_lock /\ writerLock \notin {LockSentinel, uuid4(i)}

\* C4: a call on a checkout whose token is not the stored one, the stored
\* one being another writer's, fails with PermissionError before any other
\* effect: the lock, stage, hash records, branch heads and commits are
\* unchanged and the checkout's facades are dropped.
C4_LockVerifiedFirst ==
    [][(last'.op \in WriterOps /\ last'.w \in Held /\ Stale(last'.w))
        => /\ last'.err = "PermissionError"
           /\ writers'[last'.w].facades = "deleted"
           /\ UNCHANGED <<writerLock, repo>>]_vars

\* A commit on a dirty stage was refused because another writer's token is
\* stored.
C4_Witness ==
    /\ last.op = "commit" /\ last.err = "PermissionError"
    /\ Stale(last.w)
    /\ writers[last.w].facades = "deleted"
    /\ stageenv # HeadRefs

\* C5: after commit or reset_staging_area returns the checkout still carries
\* the stored token, has built facades and passes the lock check; only
\* close() removes a checkout's token.
C5_CommitResetStayOpen ==
    /\ []((last.op \in {"commit", "reset"} /\ last.err = "ok")
            => /\ HoldsLock(last.w)
               /\ ~writers[last.w].closed
               /\ writers[last.w].facades = "built"
               /\ acquire_writer_lock(writers[last.w], World).err = "ok")
    /\ [][\A i \in Held :
            (writers[i].has_writer_lock /\ ~writers'[i].has_writer_lock)
            => (last'.op = "close" /\ last'.w = i)]_vars

\* A reset returned on a checkout that had committed before.
C5_Witness ==
    /\ last.op = "reset" /\ last.err = "ok"
    /\ Len(commitLog) > 1
    /\ HoldsLock(last.w)

\* C6: commit and reset_staging_area on a CLEAN stage fail with RuntimeError
\* (empty-commit) and change neither the stage refs, hashenv, stagehashenv,
\* the branch heads, the commits nor the lock; the checkout stays as it was.
C6_CleanRejected ==
    [][(last'.op \in {"commit", "reset"} /\ last'.w \in Held /\ HoldsLock(last'.w)
        /\ staging_area_status(World) = "CLEAN")
        => /\ last'.err = "RuntimeError"
           /\ UNCHANGED <<writerLock, repo>>
           /\ writers' = writers
           /\ acquire_writer_lock(writers'[last'.w], World').err = "ok"]_vars

\* A reset was rejected on a clean stage.
C6_Witness ==
    /\ last.op = "reset" /\ last.err = "RuntimeError"
    /\ HoldsLock(last.w)
    /\ stageenv = HeadRefs

\* C7: a commit that returns does so from a DIRTY stage; its digest is a new
\* commit and the new head of the staging base branch, no other branch head
\* moves, the status is CLEAN and a commit made right after is rejected with
\* RuntimeError (empty-commit).
C7_CommitAdvancesHead ==
    [][(last'.op = "commit" /\ last'.err = "ok")
        => /\ staging_area_status(World) = "DIRTY"
           /\ last'.ret \notin 1..Len(commitLog)
           /\ last'.ret \in 1..Len(commitLog')
           /\ stagingBranch' = stagingBranch
           /\ DOMAIN branchHeads' = DOMAIN branchHeads
           /\ branchHeads'[stagingBranch] = last'.ret
           /\ \A b \in DOMAIN branchHeads \ {stagingBranch} : branchHeads'[b] = branchHeads[b]
           /\ staging_area_status(World') = "CLEAN"
           /\ commit(writers'[last'.w], World', "").err = "RuntimeError"]_vars

\* A commit returned while a second branch existed.
C7_Witness ==
    /\ last.op = "commit" /\ last.err = "ok"
    /\ last.ret = branchHeads[stagingBranch]
    /\ DOMAIN branchHeads = BranchNames

\* C8: a reset that returns does so from a DIRTY stage; it returns the head
\* commit of the staging base branch, the stage refs become that commit's
\* refs, the status is CLEAN, and no branch head and no commit changes.
C8_ResetRestoresHead ==
    [][(last'.op = "reset" /\ last'.err = "ok")
        => /\ staging_area_status(World) = "DIRTY"
           /\ last'.ret = branchHeads[stagingBranch]
           /\ stageenv' = commitLog[last'.ret].refs
           /\ staging_area_status(World') = "CLEAN"
           /\ UNCHANGED <<branchHeads, stagingBranch, commitLog>>]_vars

\* A reset brought a committed sample back into the stage.
C8_Witness ==
    /\ last.op = "reset" /\ last.err = "ok"
    /\ stageenv # NoRefs
    /\ stageenv = commitLog[last.ret].refs

\* C9: commit and reset_staging_area by the lock's holder are rejected with
\* RuntimeError exactly when the stage refs equal the refs of the staging
\* base branch's head commit, also when writes and deletes brought the refs
\* back to the committed ones.
C9_CleanIffHeadRefs ==
    [][(last'.op \in {"commit", "reset"} /\ last'.w \in Held /\ HoldsLock(last'.w)
        /\ writers[last'.w].facades = "built")
        => (last'.err = "RuntimeError" <=> stageenv = HeadRefs)]_vars

\* A commit was rejected on a stage that had been written to and brought back
\* to the committed refs.
C9_Witness ==
    /\ last.op = "commit" /\ last.err = "RuntimeError"
    /\ stagehashenv # {}
    /\ stageenv = HeadRefs

\* C10: constructing a writer for a branch other than the staging base while
\* the stage is DIRTY (and the lock is free) fails with ValueError
\* (dirty-switch), the stage refs and the staging base being unchanged.
C10_DirtySwitchValueError ==
    [][\A b \in DOMAIN branchHeads :
        (Construct(b) /\ writerLock = LockSentinel
         /\ staging_area_status(World) = "DIRTY" /\ b # stagingBranch)
        => /\ last'.err = "ValueError"
           /\ UNCHANGED <<stageenv, stagingBranch>>]_vars

\* C11: constructing a writer for an existing branch b, the lock being free
\* and the stage CLEAN on another staging base, returns with the stage refs
\* replaced by the refs of b's head commit and the staging base set to b;
\* constructing for the staging base itself changes neither the stage refs
\* nor the staging base.
C11_CleanSwitchReplacesStage ==
    [][\A b \in DOMAIN branchHeads :
        Construct(b)
        => /\ (writerLock = LockSentinel /\ staging_area_status(World) = "CLEAN"
               /\ b # stagingBranch)
              => /\ last'.err = "ok"
                 /\ stageenv' = commitLog[branchHeads[b]].refs
                 /\ stagingBranch' = b
                 /\ UNCHANGED <<branchHeads, commitLog>>
           /\ (b = stagingBranch) => UNCHANGED <<stageenv, stagingBranch>>]_vars

\* A writer constructed for "dev" moved the stage from master's committed
\* sample to the refs of dev's head, which differ.
C11_Witness ==
    /\ last.op = "construct" /\ last.err = "ok"
    /\ stagingBranch = "dev"
    /\ stageenv = commitLog[branchHeads["dev"]].refs
    /\ stageenv # commitLog[branchHeads["master"]].refs

----------------------------------------------------------------------------
(* Properties of the reader checkout and of accessors kept by the user. *)

\* What reader j reads under each sample key: a payload, or a KeyError.
ReaderView(j) == [k \in SampleKeys |-> column_get(readers[j].dataenv, World, k)]

\* C12: a reader constructed for commit c resolves the refs of c for its
\* whole life; no call made while it is open (a writer's write, delete,
\* commit or reset included) changes its commit, its refs or what it reads
\* under any key; and a commit's parents, message and refs never change once
\* the commit exists.
C12_ReaderPinned ==
    /\ [](\A j \in Readers :
            readers[j].dataenv = commitLog[readers[j].commit_hash].refs)
    /\ [][\A j \in Readers :
            ~readers[j].closed
            => /\ readers'[j].commit_hash = readers[j].commit_hash
               /\ readers'[j].dataenv = readers[j].dataenv
               /\ ReaderView(j)' = ReaderView(j)]_vars
    /\ [][\A c \in 1..Len(commitLog) :
            c \in 1..Len(commitLog') /\ commitLog'[c] = commitLog[c]]_vars

\* A reader of the commit that holds "zeros" under "x" read "zeros" while
\* the writer's stage held "ones" under "x".
C12_Witness ==
    /\ last.op = "r_get" /\ last.err = "ok" /\ last.ret = "zeros"
    /\ "x" \in DOMAIN stageenv /\ stageenv["x"] = array_hash_digest("ones")
    /\ readers[last.w].commit_hash = branchHeads["master"]

\* The calls on a reader checkout that start with __verify_checkout_alive.
ReaderOps == {"r_datasets", "r_metadata", "r_commit_hash", "r_close", "r_get"}

\* C13: on a closed reader every call of datasets, metadata, commit_hash or
\* close fails with PermissionError and changes nothing; on an open reader
\* each of them returns (commit_hash returning the commit it was constructed
\* for); and a close that returns leaves every column handle closed and the
\* facades dropped.
C13_ReaderClosed ==
    /\ [][(last'.op \in ReaderOps /\ readers[last'.w].closed)
            => /\ last'.err = "PermissionError"
               /\ readers' = readers]_vars
    /\ [][(last'.op \in ReaderOps \ {"r_get"} /\ ~readers[last'.w].closed)
            => /\ last'.err = "ok"
               /\ last'.op = "r_commit_hash" => last'.ret = readers[last'.w].commit_hash
               /\ last'.op = "r_close"
                  => /\ readers'[last'.w].closed
                     /\ readers'[last'.w].handles = "closed"
                     /\ readers'[last'.w].facades = "deleted"]_vars

\* commit_hash was refused on a reader closed earlier.
C13_Witness ==
    /\ last.op = "r_commit_hash" /\ last.err = "PermissionError"
    /\ readers[last.w].closed
    /\ readers[last.w].handles = "closed"
    /\ readers[last.w].dataenv # NoRefs

\* C14: a datasets accessor handed out by a checkout is dead once close()
\* returned on that checkout: a write or read through it raises (the weak
\* proxy's ReferenceError), stores nothing and returns no data, for a writer
\* checkout and for a reader checkout.
C14_ProxyInvalidAfterClose ==
    /\ [](\A i \in Held :
            (writers[i].closed /\ <<"w", i>> \in DOMAIN proxies)
            => proxies[<<"w", i>>] = "dead")
    /\ [](\A j \in Readers :
            (readers[j].closed /\ <<"r", j>> \in DOMAIN proxies)
            => proxies[<<"r", j>>] = "dead")
    /\ [][(last'.op \in {"w_proxy_set", "w_proxy_get"} /\ writers[last'.w].closed)
            => /\ last'.err = "ReferenceError"
               /\ last'.ret = 0
               /\ UNCHANGED <<writerLock, repo>>]_vars
    /\ [][(last'.op = "r_proxy_get" /\ readers[last'.w].closed)
            => /\ last'.err = "ReferenceError"
               /\ last'.ret = 0
               /\ readers' = readers]_vars

\* A write through the accessor of a closed writer was refused; the accessor
\* had been used to write before the close.
C14_Witness ==
    /\ last.op = "w_proxy_set" /\ last.err = "ReferenceError"
    /\ writers[last.w].closed
    /\ stageenv # NoRefs

----------------------------------------------------------------------------
(* Properties of a nested column. *)

\* C15: right after col[key] = {subkey: val} returns, col[key][subkey]
\* returns val itself (same dtype, shape and content), whatever was assigned
\* to the column before; an assignment under a key outside the valid range
\* is refused and leaves the column as it was.
C15_ReadYourWrites ==
    [][\A key \in KeyInputs, subkey \in SubkeyInputs, val \in Arrays :
        NestedAssign(key, subkey, val)
        => IF valid_key(key) /\ valid_key(subkey)
           THEN /\ last'.err = "ok"
                /\ nested_get(column', key, subkey) = [err |-> "ok", ret |-> val]
           ELSE /\ last'.err = "ValueError"
                /\ column' = column]_vars

\* The subsample under an integer key and a string subkey was assigned a
\* second time, with an array of another shape, and reads back as assigned.
C15_Witness ==
    /\ last.op = "col_set" /\ last.err = "ok"
    /\ nested_get(column, <<"int", MaxIntKey>>, <<"str", "0">>).err = "ok"
    /\ nested_get(column, <<"int", MaxIntKey>>, <<"str", "0">>).ret.shape = "1x1x1"
    /\ Cardinality(DOMAIN column.store) > 1

\* C16: after any sequence of assignments len(col) is the number of distinct
\* sample keys assigned and len(col[key]) the number of distinct subsample
\* keys assigned under key; an assignment leaves every other subsample of
\* the key and every other key as it was, and one to an existing
\* (key, subkey) changes neither length.
C16_NestedLengths ==
    /\ [](/\ nested_len(column) = Cardinality(DOMAIN added)
          /\ \A key \in DOMAIN added :
                /\ key \in DOMAIN column.refs
                /\ nested_sublen(column, key) = Cardinality(added[key]))
    /\ [][\A key \in KeyInputs, subkey \in SubkeyInputs, val \in Arrays :
            (NestedAssign(key, subkey, val) /\ last'.err = "ok")
            => /\ \A s \in DOMAIN subsamples(column, key) \ {subkey} :
                    nested_get(column', key, s) = nested_get(column, key, s)
               /\ \A k \in DOMAIN column.refs \ {key} :
                    column'.refs[k] = column.refs[k]
               /\ (nested_get(column, key, subkey).err = "ok")
                  => /\ nested_len(column') = nested_len(column)
                     /\ nested_sublen(column', key) = nested_sublen(column, key)]_vars

\* Two sample keys were assigned, one of them under two subsample keys.
C16_Witness ==
    /\ nested_len(column) = Cardinality(KeyInputs) - 1
    /\ nested_sublen(column, <<"str", "0">>) = Cardinality(SubkeyInputs)
    /\ nested_sublen(column, <<"int", MaxIntKey>>) < Cardinality(SubkeyInputs)

----------------------------------------------------------------------------
(* Properties of context management. *)

\* The `with` blocks entered and not yet left that hold accessor a.
Holders(a) == {n \in 1..Len(stack) : stack[n] \in {"co", a}}

----------------------------------------------------------------------------
(* Invariants of the repository's records. *)

\* The digests of the commits that exist.
Commits == 1..Len(commitLog)

\* C18: in every state reached by writer constructions, writes, deletes,
\* commits, resets, closes and branch creations, every branch head names a
\* commit that exists and the staging base names a branch that exists.
C18_HeadsAndBaseExist ==
    /\ [](\A b \in DOMAIN branchHeads : branchHeads[b] \in Commits)
    /\ [](stagingBranch \in DOMAIN branchHeads)

\* A commit was made on "dev" after the staging base moved there, so the two
\* branch heads differ.
C18_Witness ==
    /\ last.op = "commit" /\ last.err = "ok"
    /\ stagingBranch = "dev"
    /\ DOMAIN branchHeads = BranchNames
    /\ branchHeads["dev"] # branchHeads["master"]

CommittedDigests ==
    UNION {{commitLog[c].refs[k] : k \in DOMAIN commitLog[c].refs} : c \in Commits}

----------------------------------------------------------------------------
(* Properties of the integrity verifier. *)

AuditOrder ==
    <<"branches", "commit tree", "commit ref digests", "schemas",
      "metadata", "arrays">>

\* What each audit does on its own on the repository, in AuditOrder.
EachAudit(o) ==
    <<verify_branch_integrity(audited.branchenv, audited.refenv, o),
      verify_commit_tree_integrity(audited.refenv, o),
      verify_commit_ref_digests_exist(audited.hashenv, audited.labelenv,
                                      audited.refenv, o),
      verify_schema_integrity(audited.hashenv, o),
      verify_metadata_integrity(audited.labelenv, o),
      verify_array_integrity(audited.hashenv, audited.repo_path, o)>>

\* C21: run_verification runs the six audits in the order branches, commit
\* tree, commit ref digests, schemas, metadata, arrays; the first audit that
\* raises ends the run, no later audit executes, and its failure is the
\* failure the caller gets.
C21_AuditsInOrder ==
    (report.call = "run_verification") =>
        LET k == Len(report.ran)
            each == EachAudit(report.order)
        IN  /\ k \in 1..Len(AuditOrder)
            /\ report.ran = SubSeq(AuditOrder, 1, k)
            /\ \A i \in 1..(k - 1) : each[i].err = "ok"
            /\ report.err = each[k].err
            /\ report.msg = each[k].msg
            /\ (k < Len(AuditOrder)) => (report.err # "ok")

C21_Witness ==
    /\ report.call = "run_verification"
    /\ report.ran = SubSeq(AuditOrder, 1, 4)
    /\ report.err = "RuntimeError"

\* The commits the audit lists whose parent record names no ancestor.
Initials ==
    {c \in audited.refenv.commits \cap DOMAIN audited.refenv.parents :
        /\ audited.refenv.parents[c].master_ancestor = ""
        /\ audited.refenv.parents[c].dev_ancestor = ""}

TreeAuditPassed == report.call = "verify_commit_tree_integrity" /\ report.err = "ok"

\* C22 (as stated): whenever the commit-tree audit passes, exactly one
\* commit has empty parents.
C22_ExactlyOneInitial == TreeAuditPassed => Cardinality(Initials) = 1

\* C22 (amended): whenever the commit-tree audit passes, at most one commit
\* has empty parents; the audit also passes when no commit has.
C22_AtMostOneInitial == TreeAuditPassed => Cardinality(Initials) <= 1

C22_Witness ==
    /\ TreeAuditPassed
    /\ audited.refenv.commits = CommitIds
    /\ Cardinality(Initials) = 1

\* A commit without a parent record, a named ancestor that is no commit,
\* or two commits with both ancestors empty.
TreeDamaged ==
    LET commits == audited.refenv.commits
        parents == audited.refenv.parents
    IN  \/ \E c \in commits : c \notin DOMAIN parents
        \/ \E c \in commits \cap DOMAIN parents :
              \/ parents[c].master_ancestor \notin commits \cup {""}
              \/ parents[c].dev_ancestor \notin commits \cup {""}
        \/ Cardinality(Initials) >= 2

\* C23: the commit-tree audit raises the corruption failure when a commit
\* has no parent record, when a non-empty master or dev ancestor names a
\* commit outside the commit set, or when two or more commits have both
\* ancestors empty; it passes when none of these holds.
C23_TreeAudit ==
    (report.call = "verify_commit_tree_integrity") =>
        /\ TreeDamaged => report.err = "RuntimeError"
        /\ ~TreeDamaged => report.err = "ok"

C23_Witness ==
    /\ report.call = "verify_commit_tree_integrity"
    /\ report.err = "RuntimeError"
    /\ Cardinality(Initials) = 1
    /\ \E c \in audited.refenv.commits \cap DOMAIN audited.refenv.parents :
          audited.refenv.parents[c].dev_ancestor = Dangling

BranchesSound ==
    LET heads == audited.branchenv.heads
    IN  /\ DOMAIN heads # {}
        /\ \A b \in DOMAIN heads : heads[b] \in audited.refenv.commits
        /\ audited.branchenv.staging \in DOMAIN heads

\* C24: the branch audit passes exactly when the branch set is non-empty,
\* every branch head is a commit of the refs db and the staging base names
\* a branch of the set; otherwise it raises the corruption failure.
C24_BranchAudit ==
    (report.call = "verify_branch_integrity") =>
        /\ BranchesSound => report.err = "ok"
        /\ ~BranchesSound => report.err = "RuntimeError"

C24_Witness ==
    /\ report.call = "verify_branch_integrity"
    /\ report.err = "RuntimeError"
    /\ DOMAIN audited.branchenv.heads = BranchNames
    /\ \A b \in BranchNames :
          audited.branchenv.heads[b] \in audited.refenv.commits

\* The (commit, digest) pairs where the commit references a digest of the
\* kind that its hash db holds no record of.
MissingData ==
    {<<c, d>> \in audited.refenv.commits \X DataDigests :
        /\ d \in audited.refenv.refs[c].data
        /\ d \notin DOMAIN audited.hashenv.arrays}

MissingSchema ==
    {<<c, d>> \in audited.refenv.commits \X SchemaDigests :
        /\ d \in audited.refenv.refs[c].schema
        /\ d \notin DOMAIN audited.hashenv.schemas}

MissingMeta ==
    {<<c, d>> \in audited.refenv.commits \X MetaDigests :
        /\ d \in audited.refenv.refs[c].meta
        /\ d \notin DOMAIN audited.labelenv}

\* C25: when a commit references a metadata digest that labelenv has no
\* entry for (and no data or schema digest is missing), the ref-digest
\* audit raises the corruption failure naming that commit and the missing
\* metadata digest, whatever array data the commit references.
C25_MissingMetadataNamed ==
    (/\ report.call = "verify_commit_ref_digests_exist"
     /\ MissingData = {} /\ MissingSchema = {}
     /\ MissingMeta # {}) =>
        /\ report.err = "RuntimeError"
        /\ report.msg[1] = "metadata"
        /\ <<report.msg[2], report.msg[3]>> \in MissingMeta

BadSchemas ==
    {d \in DOMAIN audited.hashenv.schemas :
        schema_hash_digest(audited.hashenv.schemas[d], d[1]) # d}

BadMetadata ==
    {d \in DOMAIN audited.labelenv :
        metadata_hash_digest(audited.labelenv[d], d[1]) # d}

LocalArrays ==
    {d \in DOMAIN audited.hashenv.arrays : audited.hashenv.arrays[d].islocal}

RemoteArrays == DOMAIN audited.hashenv.arrays \ LocalArrays

Recomputed(d) ==
    array_hash_digest_tcode(
        backend_read_data(audited.repo_path, audited.hashenv.arrays[d]), d[1])

\* The local records whose payload cannot be read back.
Unreadable ==
    {d \in LocalArrays :
        backend_read_data(audited.repo_path, audited.hashenv.arrays[d]) = "absent"}

BadArrays == {d \in LocalArrays \ Unreadable : Recomputed(d) # d}

\* C27: the schema, metadata and array audits each raise the corruption
\* failure exactly when some record (for arrays: some local record), hashed
\* again under the scheme of its digest's type code, gives a digest other
\* than its key; the array failure names the expected and computed digest.
C27_RecomputeAudits ==
    /\ (report.call = "verify_schema_integrity") =>
          ((report.err = "RuntimeError") <=> (BadSchemas # {}))
    /\ (report.call = "verify_metadata_integrity") =>
          ((report.err = "RuntimeError") <=> (BadMetadata # {}))
    /\ (report.call = "verify_array_integrity") =>
          /\ (report.err = "RuntimeError") => (BadArrays # {})
          /\ (Unreadable = {} /\ BadArrays # {}) => (report.err = "RuntimeError")
          /\ (report.err = "RuntimeError") =>
                /\ report.msg[2] \in BadArrays
                /\ report.msg[3] = Recomputed(report.msg[2])

C27_Witness ==
    /\ report.call = "verify_array_integrity"
    /\ report.err = "RuntimeError"
    /\ report.msg = <<"array", <<"3", "ones">>, <<"3", "zeros">> >>

\* C28: array records that are not local are never read or hashed and
\* never fail the audit: they are only counted, and when there is at least
\* one the audit emits one warning with the count once every local record
\* has been verified; a corrupt local record still raises with remote
\* records present.
C28_RemoteOnlyCounted ==
    (report.call = "verify_array_integrity") =>
        /\ \A i \in DOMAIN report.read : report.read[i] \in LocalArrays
        /\ (BadArrays = {} /\ Unreadable = {}) =>
              /\ report.err = "ok"
              /\ \A d \in LocalArrays :
                    \E i \in DOMAIN report.read : report.read[i] = d
              /\ report.warned =
                    IF RemoteArrays = {} THEN <<>>
                    ELSE << <<Cardinality(RemoteArrays),
                              Cardinality(DOMAIN audited.hashenv.arrays)>> >>
        /\ (BadArrays # {} /\ Unreadable = {}) =>
              /\ report.err = "RuntimeError"
              /\ report.warned = <<>>
        /\ report.closed = report.opened

C28_Witness ==
    /\ report.call = "verify_array_integrity"
    /\ report.err = "ok"
    /\ report.warned = << <<1, 2>> >>
    /\ report.read = << <<"0", "zeros">> >>

----------------------------------------------------------------------------
(* Properties of the backend selection. *)

\* C29: backend_from_heuristics depends on (ndim, size, variable_shape)
\* alone: "10" for a 1-D prototype of size below 400, "00" for a 1-D
\* prototype of size 400 to 10,000,000 inclusive, and for a prototype that
\* is not 1-D "01" when variable_shape is False and "00" when it is True.
C29_SelectionTable ==
    [][Select =>
        LET array == prototype.array
            variable_shape == prototype.variable_shape
        IN  /\ (array.ndim = 1 /\ array.size < 400) => selected' = "10"
            /\ (array.ndim = 1 /\ array.size >= 400
                               /\ array.size <= 10000000)
                   => selected' = "00"
            /\ (array.ndim # 1 /\ ~variable_shape) => selected' = "01"
            /\ (array.ndim # 1 /\ variable_shape) => selected' = "00"
            /\ prototype' = prototype]_vars

C29_Witness ==
    /\ prototype.array = [ndim |-> 1, size |-> 400]
    /\ selected = "00"

\* C30: "01" is selected only for a prototype that is neither 1-D nor
\* variable-shape: a 1-D prototype of size above 10,000,000 gets "00"
\* whatever variable_shape is.
C30_FixedOnlyWhenNotFlat ==
    (selected = "01") =>
        (prototype.array.ndim # 1 /\ ~prototype.variable_shape)

\* The array audit was the last audit to run.
ArraysAudited == report.ran # <<>> /\ report.ran[Len(report.ran)] = "arrays"

\* The backends of the data records.
RecordBackends ==
    {audited.hashenv.arrays[d].backend : d \in DOMAIN audited.hashenv.arrays}

\* C36: however the array audit ends (it returns, a digest differs, a read
\* fails), every backend it opened has been closed, once; no backend code is
\* opened twice in a run; and a run that returns opened the backend of every
\* data record.
C36_OpenedBackendsClosed ==
    ArraysAudited =>
        /\ report.err \in {"ok", "RuntimeError", "OSError"}
        /\ \A i \in DOMAIN report.opened :
              Cardinality({j \in DOMAIN report.closed :
                              report.closed[j] = report.opened[i]}) = 1
        /\ \A i, j \in DOMAIN report.opened :
              (report.opened[i] = report.opened[j]) => (i = j)
        /\ \A i \in DOMAIN report.opened : report.opened[i] \in RecordBackends
        /\ (report.err = "ok") =>
              RecordBackends = {report.opened[i] : i \in DOMAIN report.opened}

\* A read failed after a record of another backend had been verified: both
\* backends were opened and both are closed.
C36_Witness ==
    /\ report.call = "verify_array_integrity"
    /\ report.err = "OSError"
    /\ Len(report.opened) = 2
    /\ Len(report.closed) = 2

----------------------------------------------------------------------------
(* Properties of option parsing. *)

Parsed == selected.err # "none"

\* What backend_opts_from_heuristics infers for the prototype held.
Inferred(backend) ==
    backend_opts_from_heuristics(backend, prototype.array,
                                 prototype.variable_shape,
                                 prototype.hdf5BloscAvail)

\* C31: given a string that is a registered backend code ("00", "01", "10",
\* "30", "50"), parse_user_backend_opts returns a BackendOpts with that
\* backend and the inferred default opts; a string argument fails only
\* when the code is not registered.
C31_RegisteredCodeAccepted ==
    (Parsed /\ prototype.backend_opts.type = "str") =>
        /\ (prototype.backend_opts.val \in {"00", "01", "10", "30", "50"}) =>
              /\ selected.err = "ok"
              /\ selected.backend = prototype.backend_opts.val
              /\ selected.opts = Inferred(prototype.backend_opts.val).opts
        /\ (selected.err # "ok") =>
              prototype.backend_opts.val \notin BACKEND_ACCESSOR_MAP

\* The argument names an unregistered code, or is of no accepted type.
BadBackendOpts ==
    LET arg == prototype.backend_opts
    IN  \/ arg.type = "str" /\ arg.val \notin {"00", "01", "10", "30", "50"}
        \/ /\ arg.type = "dict"
           /\ "backend" \in DOMAIN arg.val
           /\ arg.val["backend"] \notin {"00", "01", "10", "30", "50"}
        \/ arg.type \notin {"str", "dict", "NoneType"}

\* C32: parse_user_backend_opts fails with ValueError when the string code,
\* or the `backend` value of a mapping, is not a registered code, and when
\* the argument is neither a string, a mapping nor absent; no BackendOpts
\* is returned then.
C32_UnknownCodeRejected ==
    (Parsed /\ BadBackendOpts) =>
        /\ selected.err = "ValueError"
        /\ selected.backend = ""

C32_Witness ==
    /\ Parsed
    /\ prototype.backend_opts.type = "dict"
    /\ DOMAIN prototype.backend_opts.val = {"backend", "complib"}
    /\ prototype.backend_opts.val["backend"] = "20"
    /\ selected.err = "ValueError"

\* C33: a mapping with no `backend` key is rejected with ValueError, the
\* error kind of a mapping whose `backend` value is an unknown code.
C33_MissingBackendKeyRejected ==
    (/\ Parsed
     /\ prototype.backend_opts.type = "dict"
     /\ "backend" \notin DOMAIN prototype.backend_opts.val) =>
        selected.err = "ValueError"

\* C34: for every argument form, parse_user_backend_opts never returns
\* opts for backend "00" or "01" whose complib starts with "blosc:" when
\* the prototype is smaller than 16 bytes: inferred opts fall back to the
\* built-in library (also whenever the blosc filter is unavailable), and a
\* mapping that asks for a blosc complib is rejected with ValueError.
C34_NoBloscUnder16Bytes ==
    LET arg == prototype.backend_opts
        small == prototype.array.size * prototype.array.itemsize < 16
        blosc == /\ "complib" \in DOMAIN selected.opts
                 /\ selected.opts["complib"] \in {"blosc:zstd", "blosc:lz4hc"}
    IN  /\ (Parsed /\ selected.backend \in {"00", "01"}) =>
              /\ small => ~blosc
              /\ (arg.type # "dict" /\ (small \/ ~prototype.hdf5BloscAvail))
                    => selected.opts["complib"] = "lzf"
        /\ (/\ Parsed
            /\ arg.type = "dict"
            /\ DOMAIN arg.val = {"backend", "complib"}
            /\ arg.val["backend"] \in {"00", "01"}
            /\ arg.val["complib"] \in {"blosc:zstd", "blosc:lz4hc"}
            /\ small) => selected.err = "ValueError"

C34_Witness ==
    /\ selected.err = "ok"
    /\ selected.backend = "01"
    /\ prototype.backend_opts.type = "NoneType"
    /\ prototype.hdf5BloscAvail
    /\ prototype.array.size * prototype.array.itemsize = 12
    /\ selected.opts["complib"] = "lzf"

\* C38: with no backend argument parse_user_backend_opts never fails, for
\* any prototype and either variable_shape: the heuristic selects only
\* "00", "01" or "10", each a registered local backend with default opts,
\* and the BackendOpts returned is (backend_from_heuristics,
\* backend_opts_from_heuristics) of the same inputs.
C38_AbsentNeverFails ==
    (Parsed /\ prototype.backend_opts.type = "NoneType") =>
        LET backend == backend_from_heuristics(prototype.array,
                                               prototype.variable_shape)
        IN  /\ selected.err = "ok"
            /\ selected.backend \in {"00", "01", "10"}
            /\ selected.backend \in BACKEND_ACCESSOR_MAP
            /\ BACKEND_IS_LOCAL_MAP[selected.backend]
            /\ selected.backend = backend
            /\ Inferred(backend).err = "ok"
            /\ selected.opts = Inferred(backend).opts

C38_Witness ==
    /\ selected.err = "ok"
    /\ prototype.backend_opts.type = "NoneType"
    /\ selected.backend = "10"
    /\ selected.opts = [k \in {} |-> ""]

----------------------------------------------------------------------------
(* Properties of a construction that fails. *)

\* C35: a WriterCheckout construction that fails (lock held, dirty switch,
\* or no such branch) never leaves its own new token installed as the
\* writer lock: afterwards the stored lock is free or is the token of a
\* writer that is really open.
C35_FailedConstructionLeavesNoToken ==
    [][\A b \in BranchNames :
        (Construct(b) /\ last'.err # "ok") =>
            \/ writerLock' = LockSentinel
            \/ \E i \in DOMAIN writers' :
                  /\ writers'[i].has_writer_lock
                  /\ ~writers'[i].closed
                  /\ writerLock' = uuid4(i)]_vars

----------------------------------------------------------------------------
(* Properties of the order of the steps of a commit. *)

\* The calls of a commit, in the order they are made.
CommitCalls(steps) == [k \in 1..Len(steps) |-> steps[k].call]

\* The step of a commit that makes the given call.
CommitStep(steps, call) ==
    steps[CHOOSE k \in 1..Len(steps) : steps[k].call = call]

\* C37: a commit that returns has closed the backend handles of the columns,
\* then removed the unused staged payload files, then written the commit and
\* advanced the branch head, then cleared the staged hash records, then set
\* the facades up again; the staged hash records are still in place when the
\* unused files are removed and are cleared only once the commit is written.
C37_CommitStepOrder ==
    [][\A i \in Held, m \in Messages :
        (Commit(i, m) /\ last'.err = "ok") =>
            LET a     == acquire_writer_lock(writers[i], World)
                steps == commit_steps(a.self, a.w, m)
                rm    == CommitStep(steps, "remove_unused_dataset_hdf_files")
                cr    == CommitStep(steps, "commit_records")
                clr   == CommitStep(steps, "clear_stage_hash_records")
                su    == CommitStep(steps, "__setup")
            IN  /\ CommitCalls(steps) =
                      << "_close", "remove_unused_dataset_hdf_files",
                         "commit_records", "clear_stage_hash_records", "__setup" >>
                /\ rm.args = <<stagehashenv>>
                /\ rm.w.stagehash = stagehashenv
                /\ rm.w.log = commitLog
                /\ cr.w.log = commitLog'
                /\ cr.w.heads = branchHeads'
                /\ cr.w.stagehash = stagehashenv
                /\ clr.args = <<stagehashenv>>
                /\ clr.w.stagehash = {}
                /\ clr.w.log = commitLog'
                /\ su.self = writers'[i]
                /\ su.self.facades = "built"
                /\ su.w = World']_vars

\* A commit returned on top of the initial commit: its refs name a digest
\* first written in the stage it closed, the staged hash records are gone and
\* the writer has its facades again.
C37_Witness ==
    /\ last.op = "commit"
    /\ last.err = "ok"
    /\ last.ret = 2
    /\ commitLog[2].refs # NoRefs
    /\ \E k \in DOMAIN commitLog[2].refs :
          /\ commitLog[2].refs[k] \in hashenv
          /\ \A j \in DOMAIN commitLog[1].refs :
                commitLog[1].refs[j] # commitLog[2].refs[k]
    /\ stagehashenv = {}
    /\ writers[last.w].facades = "built"

====
